---- MODULE Spec2Model ----
(***************************************************************************)
(* A model of the presentation pipeline of Basic-AI-Agent-006.             *)
(*                                                                         *)
(* Part 1: InputAgent (src/app/agents/input_agent.py).                     *)
(*                                                                         *)
(* Text is a sequence of symbols.  A symbol is one character (" ", "\n",   *)
(* a letter, "<") or one of the six tag literals, which stands for the     *)
(* characters of that literal: a stripped line equals '[SLIDE_START]' in   *)
(* the code exactly when it is the one-symbol sequence <<SLIDE_START>>     *)
(* here, because no other symbol of the alphabet contains "[" or "]".      *)
(***************************************************************************)
EXTENDS Integers, Sequences, FiniteSets, TLC

\* ------------------------------------------------------------------------
\* Program constants
\* ------------------------------------------------------------------------

MAX_SLIDES == 20

MAX_CONTENT_LINES_PER_SLIDE == 10

\* Slide.title_not_empty: len(v) > 100
MAX_TITLE_LEN == 100

\* ------------------------------------------------------------------------
\* Bounds of the model
\* ------------------------------------------------------------------------

\* the longest list of bullets of one slide of an enumerated document
MaxBullets == 4

\* the longest list given to calculate_slide_duration called on its own
MaxLines == 14

\* the most (slide_path, duration) pairs given to create_video
MaxVideoSlides == 2

\* the highest fps given to create_video
MaxFps == 2

\* ------------------------------------------------------------------------
\* The alphabet
\* ------------------------------------------------------------------------

SLIDE_START == "[SLIDE_START]"

SLIDE_END == "[SLIDE_END]"

TITLE_START == "[TITLE_START]"

TITLE_END == "[TITLE_END]"

BULLET_START == "[BULLET_START]"

BULLET_END == "[BULLET_END]"

NL == "\n"

SP == " "

\* str.strip() with no argument removes leading and trailing whitespace
IsSpace(c) == c \in {SP, NL}

\* the number of characters one symbol stands for (Python's len)
SymLen(c) ==
    CASE c = SLIDE_START -> 13
      [] c = SLIDE_END -> 11
      [] c = TITLE_START -> 13
      [] c = TITLE_END -> 11
      [] c = BULLET_START -> 14
      [] c = BULLET_END -> 12
      [] OTHER -> 1

RECURSIVE StrLen(_)
\* len(s), summed by halves to keep the evaluation shallow
StrLen(s) ==
    IF Len(s) = 0 THEN 0
    ELSE IF Len(s) = 1 THEN SymLen(s[1])
    ELSE LET m == Len(s) \div 2
         IN StrLen(SubSeq(s, 1, m)) + StrLen(SubSeq(s, m + 1, Len(s)))

Min(S) == CHOOSE x \in S : \A y \in S : x <= y

Max(S) == CHOOSE x \in S : \A y \in S : x >= y

\* s.strip(): from the first to the last symbol that is not whitespace
Strip(s) ==
    LET keep == {i \in 1..Len(s) : ~IsSpace(s[i])}
    IN IF keep = {} THEN <<>> ELSE SubSeq(s, Min(keep), Max(keep))

\* raw_text.split('\n'): one more piece than there are newlines, the k-th
\* piece lying between the (k-1)-th and the k-th newline; "" splits to
\* [''] and "a\n" to ['a', '']
SplitLines(s) ==
    LET IsNewline(i) == s[i] = NL
        nl == SelectSeq([i \in 1..Len(s) |-> i], IsNewline)
        n == Len(nl)
        pos(k) == IF k = 0 THEN 0 ELSE IF k = n + 1 THEN Len(s) + 1 ELSE nl[k]
    IN [k \in 1..(n + 1) |-> SubSeq(s, pos(k - 1) + 1, pos(k) - 1)]

\* ------------------------------------------------------------------------
\* Slide and PresentationInput (pydantic models and their validators)
\* ------------------------------------------------------------------------

\* the fixed text of the messages the code raises
E_TITLE_EMPTY == "Slide title cannot be empty"

E_TITLE_LONG == "Slide title too long (max 100 characters)"

E_CONTENT_NONE == "Slide must have at least one content line"

E_CONTENT_MANY == "Too many content lines (max 10)"

E_CONTENT_BLANK == "Slide must have at least one non-empty content line"

E_SLIDES_MANY == "Too many slides (max 20)"

E_NESTED_SLIDE == "Nested [SLIDE_START] detected. Close previous slide first."

E_END_NO_START == "[SLIDE_END] without matching [SLIDE_START]"

E_NO_TITLE == "Slide ended without a title"

E_NO_CONTENT == "Slide '<title>' has no content"

E_TITLE_OUTSIDE == "[TITLE_START] outside of slide"

E_NESTED_TITLE == "Nested [TITLE_START] detected"

E_TITLE_END_NO_START == "[TITLE_END] without matching [TITLE_START]"

E_MULTI_TITLE == "Multiple title lines detected. Title should be on one line."

E_UNCLOSED_SLIDE == "Unclosed slide detected. Missing [SLIDE_END]"

E_UNCLOSED_TITLE == "Unclosed title detected. Missing [TITLE_END]"

E_NO_SLIDES == "No slides found in input"

E_NO_INPUT == "Must provide either 'content' or 'file_path'"

E_EMPTY_INPUT == "Input is empty"

\* @validator('title'): the messages raised for v, and the value returned
title_not_empty(v) ==
    [errors |-> IF Strip(v) = <<>> THEN {E_TITLE_EMPTY}
                ELSE IF StrLen(v) > MAX_TITLE_LEN THEN {E_TITLE_LONG}
                ELSE {},
     value |-> Strip(v)]

NonEmpty(line) == line # <<>>

\* [line.strip() for line in v if line.strip()]
CleanLines(v) == SelectSeq([i \in 1..Len(v) |-> Strip(v[i])], NonEmpty)

\* @validator('content')
content_validation(v) ==
    [errors |-> IF Len(v) = 0 THEN {E_CONTENT_NONE}
                ELSE IF Len(v) > MAX_CONTENT_LINES_PER_SLIDE THEN {E_CONTENT_MANY}
                ELSE IF CleanLines(v) = <<>> THEN {E_CONTENT_BLANK}
                ELSE {},
     value |-> CleanLines(v)]

\* Slide(title=..., content=...): pydantic runs the validator of every field
\* and raises one ValidationError carrying the messages of all that failed
Slide(title, content) ==
    [errors |-> title_not_empty(title).errors \cup content_validation(content).errors,
     title |-> title_not_empty(title).value,
     content |-> content_validation(content).value]

\* @validator('slides') of PresentationInput (min_items=1 cannot fail: the
\* parser raises E_NO_SLIDES before constructing it with no slide)
check_slide_count(v) == IF Len(v) > MAX_SLIDES THEN {E_SLIDES_MANY} ELSE {}

\* ------------------------------------------------------------------------
\* InputAgent.parse_slide_format
\* ------------------------------------------------------------------------

\* current_title is None or a string: <<>> is None, <<t>> is the string t
None == <<>>

\* Python truthiness of current_title: neither None nor ''
TitleSet(current_title) == current_title # None /\ current_title[1] # <<>>

\* the locals of parse_slide_format before the loop; errors is the raised
\* exception's messages ({} while none is raised), line the number in the
\* "Line <n>: " its message starts with (0 when it names no line)
ParserInit ==
    [slides |-> <<>>, current_slide_active |-> FALSE, current_title |-> None,
     current_content |-> <<>>, in_title |-> FALSE, errors |-> {}, line |-> 0]

Raise(st, line_num, msg) == [st EXCEPT !.errors = {msg}, !.line = line_num]

\* the body of `for line_num, line in enumerate(lines, 1)`
ParseLine(st, line_num, raw_line) ==
    LET line == Strip(raw_line) IN
    IF line = <<>> /\ ~st.current_slide_active THEN st
    ELSE IF line = <<SLIDE_START>> THEN
        IF st.current_slide_active THEN Raise(st, line_num, E_NESTED_SLIDE)
        ELSE [st EXCEPT !.current_slide_active = TRUE,
                        !.current_content = <<>>,
                        !.current_title = None]
    ELSE IF line = <<SLIDE_END>> THEN
        IF ~st.current_slide_active THEN Raise(st, line_num, E_END_NO_START)
        ELSE IF ~TitleSet(st.current_title) THEN Raise(st, line_num, E_NO_TITLE)
        ELSE IF st.current_content = <<>> THEN Raise(st, line_num, E_NO_CONTENT)
        ELSE LET s == Slide(st.current_title[1], st.current_content) IN
             IF s.errors # {} THEN [st EXCEPT !.errors = s.errors]
             ELSE [st EXCEPT !.slides = Append(@, [title |-> s.title, content |-> s.content]),
                             !.current_slide_active = FALSE]
    ELSE IF line = <<TITLE_START>> THEN
        IF ~st.current_slide_active THEN Raise(st, line_num, E_TITLE_OUTSIDE)
        ELSE IF st.in_title THEN Raise(st, line_num, E_NESTED_TITLE)
        ELSE [st EXCEPT !.in_title = TRUE]
    ELSE IF line = <<TITLE_END>> THEN
        IF ~st.in_title THEN Raise(st, line_num, E_TITLE_END_NO_START)
        ELSE [st EXCEPT !.in_title = FALSE]
    ELSE IF st.in_title THEN
        IF TitleSet(st.current_title) THEN Raise(st, line_num, E_MULTI_TITLE)
        ELSE [st EXCEPT !.current_title = <<line>>]
    ELSE IF st.current_slide_active /\ line # <<>> THEN
        [st EXCEPT !.current_content = Append(@, line)]
    ELSE st

RECURSIVE ParseRange(_, _, _, _)
\* the loop over lines lo..hi, in order; a raise ends it.  The range is
\* walked by halves only to keep the evaluation shallow.
ParseRange(st, lines, lo, hi) ==
    IF st.errors # {} \/ lo > hi THEN st
    ELSE IF lo = hi THEN ParseLine(st, lo, lines[lo])
    ELSE LET mid == (lo + hi) \div 2
         IN ParseRange(ParseRange(st, lines, lo, mid), lines, mid + 1, hi)

\* for line_num, line in enumerate(lines, 1)
ParseLines(st, lines) == ParseRange(st, lines, 1, Len(lines))

\* what a call returns or raises
Failure(errors, line) == [ok |-> FALSE, slides |-> <<>>, errors |-> errors, line |-> line]

Success(slides) == [ok |-> TRUE, slides |-> slides, errors |-> {}, line |-> 0]

\* the checks after the loop, and PresentationInput(slides=slides)
parse_slide_format(raw_text) ==
    LET st == ParseLines(ParserInit, SplitLines(raw_text)) IN
    IF st.errors # {} THEN Failure(st.errors, st.line)
    ELSE IF st.current_slide_active THEN Failure({E_UNCLOSED_SLIDE}, 0)
    ELSE IF st.in_title THEN Failure({E_UNCLOSED_TITLE}, 0)
    ELSE IF st.slides = <<>> THEN Failure({E_NO_SLIDES}, 0)
    ELSE IF check_slide_count(st.slides) # {} THEN Failure(check_slide_count(st.slides), 0)
    ELSE Success(st.slides)

\* InputAgent.validate_input(content=content), file_path left at None
validate_input(content) ==
    IF content = <<>> THEN Failure({E_NO_INPUT}, 0)
    ELSE IF Strip(content) = <<>> THEN Failure({E_EMPTY_INPUT}, 0)
    ELSE parse_slide_format(content)

\* ------------------------------------------------------------------------
\* The callers' inputs: presentations written out as tagged text
\* ------------------------------------------------------------------------

RECURSIVE Join(_, _)
\* sep.join(ss), joined by halves to keep the evaluation shallow
Join(ss, sep) ==
    IF Len(ss) = 0 THEN <<>>
    ELSE IF Len(ss) = 1 THEN ss[1]
    ELSE LET m == Len(ss) \div 2
         IN Join(SubSeq(ss, 1, m), sep) \o sep \o Join(SubSeq(ss, m + 1, Len(ss)), sep)

\* the concatenation of a sequence of sequences
Concat(ss) == Join(ss, <<>>)

\* n copies of x
Rep(x, n) == [i \in 1..n |-> x]

\* the texts a caller puts between the title tags and between the bullet tags
TitleTexts == {<<>>, <<"T">>, <<SP, "T", SP, "i", SP>>}

BulletTexts == {<<>>, <<"b">>, <<SP, "<", SP, "b">>}

\* a block is what one [SLIDE_START]...[SLIDE_END] holds: its title span
\* (None when it has none) and the texts of its bullet spans
SmallBlocks ==
    [title : {None} \cup {<<t>> : t \in TitleTexts},
     bullets : {<<>>} \cup {<<x>> : x \in BulletTexts}
               \cup {<<x, y>> : x \in BulletTexts, y \in BulletTexts}]

GoodBlock(n) == [title |-> <<(<<"T">>)>>, bullets |-> Rep(<<"b">>, n)]

\* blocks at the limits of content_validation and title_not_empty
LimitBlocks ==
    {GoodBlock(n) : n \in (3..MaxBullets)
        \cup {MAX_CONTENT_LINES_PER_SLIDE, MAX_CONTENT_LINES_PER_SLIDE + 1}}
    \cup {[title |-> <<Rep("a", n)>>, bullets |-> <<(<<"b">>)>>] :
            n \in {MAX_TITLE_LEN, MAX_TITLE_LEN + 1}}

SecondBlocks ==
    {GoodBlock(1),
     [title |-> <<(<<"U">>)>>, bullets |-> <<(<<"c">>), <<"d">>>>],
     [title |-> None, bullets |-> <<(<<"c">>)>>]}

\* the presentations submitted: none, one or two blocks, and MAX_SLIDES and
\* MAX_SLIDES + 1 blocks
Docs ==
    {<<>>}
    \cup {<<b>> : b \in SmallBlocks \cup LimitBlocks}
    \cup {<<b, c>> : b \in SmallBlocks, c \in SecondBlocks}
    \cup {Rep(GoodBlock(1), n) : n \in {MAX_SLIDES, MAX_SLIDES + 1}}

\* how the text is laid out:
\*   oneline  no whitespace at all between tags (tests/test_input_agent.py:7)
\*   pretty   one tag pair per line, indented, with whitespace before the first
\*            and after the last tag (tests/test_input_agent.py:46)
\*   tagline  every tag and every text on a line of its own
\*   bare     as tagline, the bullets written without their tags: the
\*            content lines of the parser's own format
Layouts == {"oneline", "pretty", "tagline", "bare"}

\* text that belongs to no tag pair: ordinary text, or a tag with no partner
NoiseTexts == {<<"x", SP, "y">>, <<SLIDE_START>>, <<SLIDE_END>>, <<TITLE_START>>, <<TITLE_END>>}

NoNoise == [where |-> "none", what |-> <<>>]

\* where such text is added: before the first block, after the first of
\* several blocks, after the last block, or inside the first block right
\* after its [SLIDE_START]
Noises ==
    {NoNoise} \cup [where : {"before", "between", "after", "inside"}, what : NoiseTexts]

\* the lines of a block, each a sequence of items (tags and texts)
BlockGroups(b, inside) ==
    <<(<<(<<SLIDE_START>>)>>)>>
    \o inside
    \o (IF b.title = None THEN <<>>
        ELSE <<(<< <<TITLE_START>>, b.title[1], <<TITLE_END>> >>)>>)
    \o [i \in 1..Len(b.bullets) |-> << <<BULLET_START>>, b.bullets[i], <<BULLET_END>> >>]
    \o <<(<<(<<SLIDE_END>>)>>)>>

DocGroups(d, noise) ==
    LET at(where) == IF noise.where = where THEN <<(<<noise.what>>)>> ELSE <<>>
    IN at("before")
       \o Concat([i \in 1..Len(d) |->
                    BlockGroups(d[i], IF i = 1 THEN at("inside") ELSE <<>>)
                    \o (IF i = 1 /\ Len(d) > 1 THEN at("between") ELSE <<>>)])
       \o at("after")

\* the presentation has the place the text is added at
Applicable(d, noise) ==
    /\ noise.where = "inside" => Len(d) >= 1
    /\ noise.where = "between" => Len(d) >= 2

NotBulletTag(item) == item \notin {<<BULLET_START>>, <<BULLET_END>>}

\* the text submitted for presentation d
Render(d, layout, noise) ==
    LET groups == DocGroups(d, noise)
        items == Concat(groups)
    IN CASE layout = "oneline" -> Concat(items)
         [] layout = "pretty" ->
              <<NL, SP>>
              \o Join([i \in 1..Len(groups) |-> Concat(groups[i])], <<NL, SP>>)
              \o <<NL, SP>>
         [] layout = "tagline" -> Join(items, <<NL>>)
         [] layout = "bare" -> Join(SelectSeq(items, NotBulletTag), <<NL>>)

\* ------------------------------------------------------------------------
\* Part 2: PlannerAgent (src/app/agents/planner_agent.py): the models
\* ------------------------------------------------------------------------

ThemeConfig(name, background_color, text_color, accent_color, font_family) ==
    [name |-> name, background_color |-> background_color,
     text_color |-> text_color, accent_color |-> accent_color,
     font_family |-> font_family]

\* the dictionary the class body assigns to PlannerAgent.THEMES
PredefinedThemes ==
    [n \in {"corporate_blue", "modern_dark", "minimal_light", "vibrant_purple"} |->
        CASE n = "corporate_blue" ->
               ThemeConfig("corporate_blue", "#1e3a8a", "#ffffff", "#60a5fa", "Arial")
          [] n = "modern_dark" ->
               ThemeConfig("modern_dark", "#1f2937", "#f9fafb", "#10b981", "Helvetica")
          [] n = "minimal_light" ->
               ThemeConfig("minimal_light", "#f3f4f6", "#111827", "#3b82f6", "Arial")
          [] n = "vibrant_purple" ->
               ThemeConfig("vibrant_purple", "#7c3aed", "#ffffff", "#fbbf24", "Arial")]

\* the Field(ge=..., le=...) constraints of SlideLayout
SlideLayoutErrors(l) ==
    {f \in {"duration_seconds", "font_size_title", "font_size_content"} :
        CASE f = "duration_seconds" -> ~(l.duration_seconds >= 3 /\ l.duration_seconds <= 15)
          [] f = "font_size_title" -> ~(l.font_size_title >= 24 /\ l.font_size_title <= 72)
          [] f = "font_size_content" -> ~(l.font_size_content >= 16 /\ l.font_size_content <= 48)}

\* SlideLayout(...): the model, or the fields whose validation failed
SlideLayout(slide_number, title, content, layout, seconds, size_title, size_content) ==
    LET l == [slide_number |-> slide_number, title |-> title, content |-> content,
              layout |-> layout, duration_seconds |-> seconds,
              font_size_title |-> size_title, font_size_content |-> size_content]
    IN [ok |-> SlideLayoutErrors(l) = {}, layout |-> l, errors |-> SlideLayoutErrors(l)]

\* PresentationPlan(theme=..., slides=..., total_duration=...)
PresentationPlan(theme, slides, total) ==
    [ok |-> TRUE, theme |-> theme, slides |-> slides,
     total_duration |-> total, errors |-> {}]

\* create_plan raised the ValidationError of a SlideLayout
PlanFailure(errors) ==
    [ok |-> FALSE, theme |-> <<>>, slides |-> <<>>, total_duration |-> 0, errors |-> errors]

\* create_plan has not been called
NoPlan == PlanFailure({})

\* ------------------------------------------------------------------------
\* The state machine: calls of InputAgent.validate_input
\* ------------------------------------------------------------------------

VARIABLES
    pc,        \* "idle", "validated" (one call made), "revalidated" (two)
    doc,       \* the presentation the caller submits
    request,   \* how the latest call wrote it: [layout, noise]
    content,   \* the content argument of the latest call
    result,    \* what the latest call returned or raised
    previous   \* the call before the latest: [request, content, result]

\* PlannerAgent (src/app/agents/planner_agent.py)
VARIABLES
    THEMES,           \* the class attribute PlannerAgent.THEMES
    validated_input,  \* the slides of the PresentationInput given to create_plan
    theme_name,       \* the theme_name argument: None, or <<name>>
    plan,             \* what create_plan returned or raised
    content_lines,    \* the argument of the latest calculate_slide_duration
    duration          \* what that call returned

\* SlideAgent and SlideRenderer (src/app/agents/slide_agent.py,
\* src/app/services/slide_renderer.py)
VARIABLES
    files,         \* the file system: the image stored at each path that exists
    output_dir,    \* the output_dir of render_slides: None, or <<directory>>
    output_paths,  \* the list render_multiple_slides is building
    render_pc,     \* "idle", "rendering", "returned", "raised"
    slide_result   \* the SlideRenderResult that render_slides returned

\* OpenCVGenerator.create_video (src/app/services/video_generator.py)
VARIABLES
    slide_data,      \* the (slide_path, duration) pairs given to create_video
    fps,             \* the fps argument
    video_pc,        \* "idle", "loading", "writing", "released", "raised"
    video_error,     \* the exception create_video raised, "" when none
    out,             \* the cv2.VideoWriter: "none", "open", "failed", "released"
    video_idx,       \* idx of the loop over slide_data
    image_bgr,       \* the image loaded for the current slide
    num_frames,      \* the frames to write for the current slide
    frame_num,       \* the frames written for the current slide
    frames,          \* the frames written to the output, in order
    total_frames,    \* the counter total_frames
    total_duration   \* the counter total_duration

\* VideoAgent.create_video (src/app/agents/video_agent.py)
VARIABLES
    video_args,       \* the output_filename and fps arguments, None when left out
    video_output_path, \* output_path of line 74
    video_result      \* <<the VideoGenerationResult returned>>, None when none is

\* pipeline runs that work at the same time (src/app/api/v1/endpoints.py)
VARIABLES
    run               \* for each run, its plan and how far it has come

\* SlideRenderer._wrap_text, _render_title, render_slide and _get_font
\* (src/app/services/slide_renderer.py)
VARIABLES
    wrap_input,       \* the arguments of the latest _wrap_text: text, font, max_width
    wrap_output,      \* the lines it returned
    draw_input,       \* the layout and theme given to render_slide
    draws,            \* the draw.text calls of render_slide, in order
    draw_pc,          \* "idle", "title" (the title is drawn), "done"
    font_cache,       \* self.font_cache of the renderer
    font_calls,       \* the _get_font calls made: family, size, font returned
    fonts_created     \* the number of font objects created so far

inputVars == <<pc, doc, request, content, result, previous>>

agentVars == <<video_args, video_output_path, video_result>>

runVars == <<run>>

drawVars == <<wrap_input, wrap_output, draw_input, draws, draw_pc, font_cache,
              font_calls, fonts_created>>

detailVars == <<agentVars, runVars, drawVars>>

rendererVars == <<files, output_dir, output_paths, render_pc, slide_result>>

videoVars == <<slide_data, fps, video_pc, video_error, out, video_idx, image_bgr,
               num_frames, frame_num, frames, total_frames, total_duration>>

plannerVars == <<THEMES, validated_input, theme_name, plan, content_lines, duration>>

vars == <<inputVars, plannerVars, rendererVars, videoVars, detailVars>>

\* no call of the planner has been made
PlannerIdle ==
    /\ THEMES = PredefinedThemes
    /\ validated_input = <<>>
    /\ theme_name = None
    /\ plan = NoPlan
    /\ content_lines = <<>>
    /\ duration = 0

\* render_slides has not been called: no file, no result
NoSlideResult == [slide_paths |-> <<>>, slide_count |-> 0, output_directory |-> <<>>]

RendererIdle ==
    /\ files = <<>>
    /\ output_dir = None
    /\ output_paths = <<>>
    /\ render_pc = "idle"
    /\ slide_result = NoSlideResult

\* create_video has not been called
VideoIdle ==
    /\ slide_data = <<>>
    /\ fps = 0
    /\ video_pc = "idle"
    /\ video_error = ""
    /\ out = "none"
    /\ video_idx = 0
    /\ image_bgr = None
    /\ num_frames = 0
    /\ frame_num = 0
    /\ frames = <<>>
    /\ total_frames = 0
    /\ total_duration = 0

\* VideoAgent.create_video has not been called
AgentIdle ==
    /\ video_args = None
    /\ video_output_path = None
    /\ video_result = None

\* no run is under way
RunsIdle == run = <<>>

\* a renderer that has drawn nothing and holds no font
DrawIdle ==
    /\ wrap_input = <<>>
    /\ wrap_output = <<>>
    /\ draw_input = <<>>
    /\ draws = <<>>
    /\ draw_pc = "idle"
    /\ font_cache = <<>>
    /\ font_calls = <<>>
    /\ fonts_created = 0

DetailIdle == AgentIdle /\ RunsIdle /\ DrawIdle

NoCall == [request |-> [layout |-> "", noise |-> NoNoise], content |-> <<>>,
           result |-> Failure({}, 0)]

Init ==
    /\ pc = "idle"
    /\ doc \in Docs
    /\ request = NoCall.request
    /\ content = NoCall.content
    /\ result = NoCall.result
    /\ previous = NoCall
    /\ PlannerIdle
    /\ RendererIdle
    /\ VideoIdle
    /\ DetailIdle

\* no call of validate_input is made
InputIdle ==
    /\ pc = "idle"
    /\ doc = <<>>
    /\ request = NoCall.request
    /\ content = NoCall.content
    /\ result = NoCall.result
    /\ previous = NoCall

\* a call of validate_input(content=Render(doc, layout, noise))
Call(layout, noise) ==
    /\ Applicable(doc, noise)
    /\ request' = [layout |-> layout, noise |-> noise]
    /\ content' = Render(doc, layout, noise)
    /\ result' = validate_input(Render(doc, layout, noise))
    /\ UNCHANGED doc

\* the first call for the presentation
ValidateInput ==
    /\ pc = "idle"
    /\ \E layout \in Layouts, noise \in Noises : Call(layout, noise)
    /\ pc' = "validated"
    /\ UNCHANGED <<previous, plannerVars, rendererVars, videoVars, detailVars>>

\* a second, independent call with the same presentation: in another layout,
\* or in the same layout with text added outside the tag pairs
ValidateAgain ==
    /\ pc = "validated"
    /\ \E layout \in Layouts, noise \in Noises :
         /\ \/ layout # request.layout /\ noise = request.noise
            \/ layout = request.layout /\ request.noise = NoNoise /\ noise # NoNoise
         /\ Call(layout, noise)
    /\ previous' = [request |-> request, content |-> content, result |-> result]
    /\ pc' = "revalidated"
    /\ UNCHANGED <<plannerVars, rendererVars, videoVars, detailVars>>

Next == ValidateInput \/ ValidateAgain

Spec == Init /\ [][Next]_vars

\* ------------------------------------------------------------------------
\* What the tagged grammar says of a presentation (spec 4.1, and the inputs
\* of tests/test_input_agent.py)
\* ------------------------------------------------------------------------

\* the layouts that write every title and bullet between its tags
TaggedLayouts == {"oneline", "pretty", "tagline"}

\* the bullets of a block that are not empty after trimming, trimmed
Bullets(b) == SelectSeq([i \in 1..Len(b.bullets) |-> Strip(b.bullets[i])], NonEmpty)

HasTitle(b) == b.title # None /\ Strip(b.title[1]) # <<>>

\* one or more blocks, each with a title and a bullet that is not empty
WellFormed(d) == Len(d) >= 1 /\ \A i \in 1..Len(d) : HasTitle(d[i]) /\ Bullets(d[i]) # <<>>

TooManySlides(d) == Len(d) > MAX_SLIDES

TooManyLines(d) == \E i \in 1..Len(d) : Len(d[i].bullets) > MAX_CONTENT_LINES_PER_SLIDE

TitleTooLong(d) ==
    \E i \in 1..Len(d) : d[i].title # None /\ StrLen(Strip(d[i].title[1])) > MAX_TITLE_LEN

WithinLimits(d) == ~TooManySlides(d) /\ ~TooManyLines(d) /\ ~TitleTooLong(d)

ValidDoc(d) == WellFormed(d) /\ WithinLimits(d)

\* the latest call submitted the presentation as tagged text, nothing added
TaggedCall == pc # "idle" /\ request.layout \in TaggedLayouts /\ request.noise = NoNoise

\* the messages that name a limit
LimitMessages == {E_SLIDES_MANY, E_CONTENT_MANY, E_TITLE_LONG}

\* the messages that name a problem with the title of a slide
TitleMessages == {E_NO_TITLE, E_TITLE_EMPTY}

\* the messages that contain "unclosed", in either case
UnclosedMessages == {E_UNCLOSED_SLIDE, E_UNCLOSED_TITLE}

\* ------------------------------------------------------------------------
\* Claims C1..C10: InputAgent
\* ------------------------------------------------------------------------

\* C1: for a valid presentation, the whitespace between tags does not matter:
\* two calls that submit it in two tagged layouts (on one line, one tag pair
\* per line, one tag per line) have the same outcome and the same slides.
C1_WhitespaceInsensitive ==
    (/\ pc = "revalidated"
     /\ ValidDoc(doc)
     /\ request.noise = NoNoise /\ previous.request.noise = NoNoise
     /\ request.layout \in TaggedLayouts
     /\ previous.request.layout \in TaggedLayouts)
    => /\ result.ok = previous.result.ok
       /\ result.slides = previous.result.slides

\* C2: for a valid presentation submitted as tagged text, the call succeeds
\* and every slide it returns has the trimmed title of its block and, as
\* content, exactly the trimmed non-empty bullets of that block in order,
\* other characters ("<") kept.
C2_TitleAndBullets ==
    (TaggedCall /\ ValidDoc(doc))
    => /\ result.ok
       /\ \A i \in 1..Len(result.slides) :
            /\ i <= Len(doc)
            /\ result.slides[i].title = Strip(doc[i].title[1])
            /\ result.slides[i].content = Bullets(doc[i])

\* C3: a valid presentation of N blocks, 1 <= N <= MAX_SLIDES, submitted as
\* tagged text yields exactly N slides, the i-th with the title of the i-th
\* block and as many content lines as that block has non-empty bullets.
C3_OneSlidePerBlock ==
    (TaggedCall /\ ValidDoc(doc))
    => /\ result.ok
       /\ Len(result.slides) = Len(doc)
       /\ \A i \in 1..Len(doc) :
            /\ result.slides[i].title = Strip(doc[i].title[1])
            /\ Len(result.slides[i].content) = Len(Bullets(doc[i]))

\* C4: when the text ends with a [SLIDE_START] that no [SLIDE_END] closes
\* (after no block, or after the blocks of a valid presentation), the call
\* fails with a message containing "unclosed" and returns no slide.
C4_UnclosedSlide ==
    (/\ pc # "idle"
     /\ request.layout \in TaggedLayouts
     /\ request.noise = [where |-> "after", what |-> <<SLIDE_START>>]
     /\ (doc = <<>> \/ ValidDoc(doc)))
    => /\ ~result.ok
       /\ result.slides = <<>>
       /\ result.errors # {}
       /\ result.errors \subseteq UnclosedMessages

\* C5: a well-formed presentation submitted as tagged text is rejected with
\* the message naming the limit when it has more than MAX_SLIDES slides, a
\* slide with more than MAX_CONTENT_LINES_PER_SLIDE bullets, or a title of
\* more than 100 characters, and is rejected with no such message when it is
\* within the three limits.
C5_Limits ==
    (TaggedCall /\ WellFormed(doc))
    => /\ TooManySlides(doc) => (~result.ok /\ E_SLIDES_MANY \in result.errors)
       /\ TooManyLines(doc) => (~result.ok /\ E_CONTENT_MANY \in result.errors)
       /\ TitleTooLong(doc) => (~result.ok /\ E_TITLE_LONG \in result.errors)
       /\ WithinLimits(doc) => result.errors \cap LimitMessages = {}

\* C6: a single block with bullets but with no title span, or with a title
\* that is empty after trimming, submitted as tagged text, fails with a
\* message that names the title problem.  (The claim asks for the texts
\* "Missing title" and "Title is empty", which no message of the code
\* contains; this states it for any message about the title.)
C6_TitleProblem ==
    (/\ TaggedCall
     /\ Len(doc) = 1
     /\ ~HasTitle(doc[1])
     /\ Bullets(doc[1]) # <<>>)
    => /\ ~result.ok
       /\ result.errors # {}
       /\ result.errors \subseteq TitleMessages

\* C7: a single block with a title but with no bullet, or with bullets that
\* are all empty after trimming, submitted as tagged text, fails with the
\* message containing "has no content".
C7_NoContent ==
    (/\ TaggedCall
     /\ Len(doc) = 1
     /\ HasTitle(doc[1])
     /\ Bullets(doc[1]) = <<>>)
    => /\ ~result.ok
       /\ result.errors = {E_NO_CONTENT}

\* C8: a text with no block and no [SLIDE_START] at all, only ordinary text
\* or a tag with no partner, fails with "No slides found in input".
C8_NoSlides ==
    (/\ pc # "idle"
     /\ doc = <<>>
     /\ request.noise # NoNoise
     /\ request.noise.what # <<SLIDE_START>>
     /\ Strip(content) # <<>>)
    => /\ ~result.ok
       /\ result.errors = {E_NO_SLIDES}

\* C9: content that is the empty string, like content made only of
\* whitespace, fails with "Input is empty".
C9_EmptyInput ==
    (pc # "idle" /\ Strip(content) = <<>>)
    => /\ ~result.ok
       /\ result.errors = {E_EMPTY_INPUT}

\* C10: when ordinary text is added to a valid presentation submitted as
\* tagged text (before the first block, between blocks, after the last
\* block, or inside a block outside its title and bullet spans), the call
\* has the same outcome and the same slides as without the text.
C10_OutsideTextIgnored ==
    (/\ pc = "revalidated"
     /\ ValidDoc(doc)
     /\ request.layout \in TaggedLayouts
     /\ previous.request = [layout |-> request.layout, noise |-> NoNoise]
     /\ request.noise.what = <<"x", SP, "y">>)
    => /\ result.ok = previous.result.ok
       /\ result.slides = previous.result.slides

\* ------------------------------------------------------------------------
\* Claim C11: tags with no partner
\* ------------------------------------------------------------------------

\* the places where a tag with no partner is outside every slide
OutsideSlides == {"before", "between", "after"}

\* the tags with no partner that the grammar is said not to see: a
\* [SLIDE_END] with no open slide, a [TITLE_END] with no open title, a
\* [TITLE_START] outside any slide, a second [SLIDE_START] inside a slide
StrayTag(noise) ==
    \/ noise.what = <<SLIDE_END>> /\ noise.where \in OutsideSlides
    \/ noise.what = <<TITLE_END>> /\ noise.where \in OutsideSlides \cup {"inside"}
    \/ noise.what = <<TITLE_START>> /\ noise.where \in OutsideSlides
    \/ noise.what = <<SLIDE_START>> /\ noise.where = "inside"

\* C11: when a tag with no partner is added to a valid presentation whose
\* text parses successfully without it, the call with the tag added parses
\* successfully too, and returns as many slides.
C11_StrayTagsInvisible ==
    (/\ pc = "revalidated"
     /\ ValidDoc(doc)
     /\ previous.request = [layout |-> request.layout, noise |-> NoNoise]
     /\ previous.result.ok
     /\ StrayTag(request.noise))
    => /\ result.ok
       /\ Len(result.slides) = Len(previous.result.slides)

\* ------------------------------------------------------------------------
\* Part 2: PlannerAgent, the rules
\* ------------------------------------------------------------------------

RECURSIVE Sum(_)
\* sum(ns), summed by halves to keep the evaluation shallow
Sum(ns) ==
    IF Len(ns) = 0 THEN 0
    ELSE IF Len(ns) = 1 THEN ns[1]
    ELSE LET m == Len(ns) \div 2
         IN Sum(SubSeq(ns, 1, m)) + Sum(SubSeq(ns, m + 1, Len(ns)))

\* calculate_slide_duration without the cap of line 97
calculate_slide_duration_uncapped(lines) == 3 + Len(lines)

\* calculate_slide_duration without the base of line 91
calculate_slide_duration_no_base(lines) == Min({Len(lines), 15})

\* PlannerAgent.calculate_slide_duration(content_lines)
calculate_slide_duration(lines) ==
    LET base_duration == 3
        per_bullet_time == 1
        d == base_duration + (Len(lines) * per_bullet_time)
    IN Min({d, 15})

\* a / b of Python is the exact quotient here: [num, den] with den > 0.
\* q > k for an integer k is num > k * den (the float quotient of two small
\* integers compares with an integer as the exact quotient does)
Quotient(a, b) == [num |-> a, den |-> b]

Exceeds(q, k) == q.num > k * q.den

\* calculate_font_sizes with >= for > in the title rule of lines 109-114
calculate_font_sizes_inclusive(title, lines) ==
    [title |-> IF StrLen(title) >= 50 THEN 36 ELSE IF StrLen(title) >= 30 THEN 42 ELSE 48,
     content |->
        LET total == Sum([i \in 1..Len(lines) |-> StrLen(lines[i])])
            n == Len(lines)
            baseline == IF total > 80 * n THEN 24 ELSE IF total > 50 * n THEN 28 ELSE 32
        IN IF n > 6 THEN Max({20, baseline - 4}) ELSE baseline]

\* calculate_font_sizes with // for / in the mean of line 117: the mean is
\* truncated to an integer before it is compared
calculate_font_sizes_truncated(title, lines) ==
    [title |-> IF StrLen(title) > 50 THEN 36 ELSE IF StrLen(title) > 30 THEN 42 ELSE 48,
     content |->
        LET total == Sum([i \in 1..Len(lines) |-> StrLen(lines[i])])
            n == Len(lines)
            mean == IF n > 0 THEN total \div n ELSE 0
            baseline == IF mean > 80 THEN 24 ELSE IF mean > 50 THEN 28 ELSE 32
        IN IF n > 6 THEN Max({20, baseline - 4}) ELSE baseline]

\* PlannerAgent.calculate_font_sizes(title, content_lines)
calculate_font_sizes(title, lines) ==
    LET title_font ==
            IF StrLen(title) > 50 THEN 36
            ELSE IF StrLen(title) > 30 THEN 42
            ELSE 48
        avg_content_length ==
            IF lines # <<>>
            THEN Quotient(Sum([i \in 1..Len(lines) |-> StrLen(lines[i])]), Len(lines))
            ELSE Quotient(0, 1)
        baseline ==
            IF Exceeds(avg_content_length, 80) THEN 24
            ELSE IF Exceeds(avg_content_length, 50) THEN 28
            ELSE 32
        content_font ==
            IF Len(lines) > 6 THEN Max({20, baseline - 4}) ELSE baseline
    IN [title |-> title_font, content |-> content_font]

\* the truth value of an optional string: None and "" are false
Truthy(name) == name # None /\ name[1] # ""

\* select_theme without the lookup of lines 146-148: always the default
select_theme_default(name) == THEMES["corporate_blue"]

\* PlannerAgent.select_theme(theme_name)
select_theme(name) ==
    IF Truthy(name) /\ name[1] \in DOMAIN THEMES
    THEN THEMES[name[1]]
    ELSE LET default == "corporate_blue" IN THEMES[default]

RECURSIVE PlanSlides(_, _, _, _)
\* the loop of create_plan from the idx-th slide on, given the layouts and
\* the total duration so far
PlanSlides(slides, idx, slide_layouts, total) ==
    IF idx > Len(slides)
    THEN [ok |-> TRUE, slide_layouts |-> slide_layouts,
          total_duration |-> total, errors |-> {}]
    ELSE LET slide == slides[idx]
             d == calculate_slide_duration(slide.content)
             fonts == calculate_font_sizes(slide.title, slide.content)
             layout == SlideLayout(idx, slide.title, slide.content,
                                   "title_and_bullets", d, fonts.title, fonts.content)
         IN IF ~layout.ok
            THEN [ok |-> FALSE, slide_layouts |-> slide_layouts,
                  total_duration |-> total + d, errors |-> layout.errors]
            ELSE PlanSlides(slides, idx + 1, Append(slide_layouts, layout.layout),
                            total + d)

\* create_plan with the loop of line 179 started at the second slide
create_plan_from_second(slides, name) ==
    LET loop == PlanSlides(slides, 2, <<>>, 0)
    IN IF loop.ok
       THEN PresentationPlan(select_theme(name), loop.slide_layouts, loop.total_duration)
       ELSE PlanFailure(loop.errors)

\* create_plan with = for += in line 182: the total is the last duration
create_plan_last_duration(slides, name) ==
    LET loop == PlanSlides(slides, 1, <<>>, 0)
    IN IF loop.ok
       THEN PresentationPlan(select_theme(name), loop.slide_layouts,
                             calculate_slide_duration(slides[Len(slides)].content))
       ELSE PlanFailure(loop.errors)

\* PlannerAgent.create_plan(validated_input, theme_name)
create_plan(slides, name) ==
    LET theme == select_theme(name)
        loop == PlanSlides(slides, 1, <<>>, 0)
    IN IF loop.ok
       THEN PresentationPlan(theme, loop.slide_layouts, loop.total_duration)
       ELSE PlanFailure(loop.errors)

\* ------------------------------------------------------------------------
\* The planner's inputs: validated presentations
\* ------------------------------------------------------------------------

\* titles of the lengths around the thresholds of calculate_font_sizes and
\* at the limits of Slide.title_not_empty
PlanTitles == {Rep("t", n) : n \in {1, 10, 30, 31, 50, 51, 60, MAX_TITLE_LEN}}

\* n content lines of len characters each
Lines(n, len) == Rep(Rep("b", len), n)

\* content lines of the lengths around the thresholds of the mean, in
\* numbers around the threshold of the density rule and at the limits of
\* Slide.content_validation; and lists whose mean is not an integer
PlanContents ==
    {Lines(n, len) : n \in {1, 2, 6, 7, MAX_CONTENT_LINES_PER_SLIDE},
                     len \in {1, 50, 51, 80, 81}}
    \cup {Lines(1, 50) \o Lines(1, 51),
          Lines(2, 50) \o Lines(1, 51),
          Lines(1, 80) \o Lines(1, 81),
          Lines(6, 50) \o Lines(1, 51),
          Lines(6, 80) \o Lines(1, 81)}

\* the Slide objects that pass validation
ValidSlides(titles, contents) ==
    {[title |-> Slide(t, c).title, content |-> Slide(t, c).content] :
        <<t, c>> \in {x \in titles \X contents : Slide(x[1], x[2]).errors = {}}}

\* slides that differ in the title only, or in the content only
PairTitles == {Rep("t", n) : n \in {10, 31, 60}}

PairContents == {Lines(2, 1), Lines(6, 51), Lines(7, 81)}

\* MAX_SLIDES slides, the k-th with 1 + (k mod 10) content lines
FullDeck ==
    [k \in 1..MAX_SLIDES |->
        [title |-> Rep("t", k), content |-> Lines(1 + (k % MAX_CONTENT_LINES_PER_SLIDE), k)]]

\* the PresentationInput objects given to create_plan: their slides
PresentationInputs ==
    {<<s>> : s \in ValidSlides(PlanTitles, PlanContents)}
    \cup {<<s, t>> : s \in ValidSlides(PairTitles, PairContents),
                     t \in ValidSlides(PairTitles, PairContents)}
    \cup {FullDeck, SubSeq(FullDeck, 1, MAX_SLIDES - 1)}

\* the theme_name arguments: absent, empty, the four known names, and names
\* that are not in the table
ThemeNames ==
    {None} \cup {<<n>> : n \in {"", "corporate_blue", "modern_dark", "minimal_light",
                                "vibrant_purple", "neon", "Modern_Dark"}}

\* ------------------------------------------------------------------------
\* The state machine: calls of the planner
\* ------------------------------------------------------------------------

\* a caller either holds a validated presentation and a theme name to plan
\* with, or holds none and asks for the duration of a list of lines
PlannerInit ==
    /\ InputIdle
    /\ THEMES = PredefinedThemes
    /\ \/ validated_input \in PresentationInputs /\ theme_name \in ThemeNames
       \/ validated_input = <<>> /\ theme_name = None
    /\ plan = NoPlan
    /\ content_lines = <<>>
    /\ duration = 0
    /\ RendererIdle
    /\ VideoIdle
    /\ DetailIdle

\* plan = PlannerAgent.create_plan(validated_input, theme_name)
CreatePlan ==
    /\ validated_input # <<>>
    /\ plan = NoPlan
    /\ plan' = create_plan(validated_input, theme_name)
    /\ UNCHANGED <<THEMES, validated_input, theme_name, content_lines, duration>>
    /\ UNCHANGED <<inputVars, rendererVars, videoVars, detailVars>>

\* duration = PlannerAgent.calculate_slide_duration(content_lines), called on
\* its own with any list of lines
CalculateSlideDuration ==
    /\ validated_input = <<>>
    /\ duration = 0
    /\ \E n \in 0..MaxLines :
         /\ content_lines' = Lines(n, 1)
         /\ duration' = calculate_slide_duration(Lines(n, 1))
    /\ UNCHANGED <<THEMES, validated_input, theme_name, plan>>
    /\ UNCHANGED <<inputVars, rendererVars, videoVars, detailVars>>

PlannerNext == CreatePlan \/ CalculateSlideDuration

PlannerSpec == PlannerInit /\ [][PlannerNext]_vars

\* ------------------------------------------------------------------------
\* Claims C12..C18: PlannerAgent
\* ------------------------------------------------------------------------

\* create_plan has been called and has returned or raised
Planned == plan # NoPlan

\* C12: for a valid input of N slides, 1 <= N <= MAX_SLIDES, create_plan
\* returns a plan of exactly N layouts, the i-th numbered i and carrying the
\* title and the content of the i-th input slide unchanged.
C12_OneLayoutPerSlide ==
    Planned
    => /\ plan.ok
       /\ Len(validated_input) \in 1..MAX_SLIDES
       /\ Len(plan.slides) = Len(validated_input)
       /\ \A i \in 1..Len(validated_input) :
            /\ plan.slides[i].slide_number = i
            /\ plan.slides[i].title = validated_input[i].title
            /\ plan.slides[i].content = validated_input[i].content

\* a plan of MAX_SLIDES layouts was returned
C12_Witness == Planned /\ plan.ok /\ Len(plan.slides) = MAX_SLIDES

\* x, or the nearer of lo and hi when x is outside lo..hi
Clamp(x, lo, hi) == IF x < lo THEN lo ELSE IF x > hi THEN hi ELSE x

\* calculate_slide_duration has been called on its own and has returned
DurationAsked == duration # 0

\* C13: the duration of a slide is clamp(3 + bullet_count, 3, 15), in a plan
\* and when calculate_slide_duration is called on its own; of two slides of
\* a plan, the one with more bullets never lasts less, and lasts longer
\* while 3 + its bullet count is at most 15.
C13_Duration ==
    /\ DurationAsked => duration = Clamp(3 + Len(content_lines), 3, 15)
    /\ (Planned /\ plan.ok) =>
         \A i \in 1..Len(plan.slides) :
            /\ plan.slides[i].duration_seconds
                 = Clamp(3 + Len(plan.slides[i].content), 3, 15)
            /\ \A j \in 1..Len(plan.slides) :
                 Len(plan.slides[i].content) < Len(plan.slides[j].content)
                 => /\ plan.slides[i].duration_seconds <= plan.slides[j].duration_seconds
                    /\ 3 + Len(plan.slides[j].content) <= 15
                       => plan.slides[i].duration_seconds < plan.slides[j].duration_seconds

\* the cap is reached: more than 12 lines last 15 seconds
C13_Witness == DurationAsked /\ Len(content_lines) > 12 /\ duration = 15

\* C14: the title font of a slide of a plan is 36 when its title has more
\* than 50 characters, 42 when it has more than 30 and at most 50, and 48
\* otherwise; of two slides with the same bullets, one with a title of 60
\* characters has a smaller title font than one with a title of 10.
C14_TitleFont ==
    (Planned /\ plan.ok) =>
      \A i \in 1..Len(plan.slides) :
        LET n == StrLen(plan.slides[i].title) IN
        /\ n > 50 => plan.slides[i].font_size_title = 36
        /\ (30 < n /\ n <= 50) => plan.slides[i].font_size_title = 42
        /\ n <= 30 => plan.slides[i].font_size_title = 48
        /\ \A j \in 1..Len(plan.slides) :
             (/\ plan.slides[i].content = plan.slides[j].content
              /\ n = 60
              /\ StrLen(plan.slides[j].title) = 10)
             => plan.slides[i].font_size_title < plan.slides[j].font_size_title

\* a plan of a slide with a title of 60 characters and a slide with a title
\* of 10 characters and the same bullets
C14_Witness ==
    /\ Planned /\ plan.ok
    /\ Len(plan.slides) = 2
    /\ StrLen(plan.slides[1].title) = 60
    /\ StrLen(plan.slides[2].title) = 10
    /\ plan.slides[1].content = plan.slides[2].content
    /\ plan.slides[1].font_size_title = 36
    /\ plan.slides[2].font_size_title = 48

\* the number of characters of all the lines together
TotalChars(lines) == StrLen(Concat(lines))

\* the baseline the claim gives for total characters in n bullets: the mean
\* total / n is compared as a fraction, not truncated
Baseline(total, n) ==
    IF total > 80 * n THEN 24
    ELSE IF total > 50 * n THEN 28
    ELSE 32

\* C15: the content font of a slide of a plan is the baseline of the mean
\* bullet length (24 above 80, 28 above 50, else 32, the mean compared
\* exactly) when the slide has at most 6 bullets, and max(20, baseline - 4),
\* one of 20, 24 and 28, when it has more.
C15_ContentFont ==
    (Planned /\ plan.ok) =>
      \A i \in 1..Len(plan.slides) :
        LET lines == plan.slides[i].content
            baseline == Baseline(TotalChars(lines), Len(lines))
        IN /\ Len(lines) <= 6 => plan.slides[i].font_size_content = baseline
           /\ Len(lines) > 6 =>
                /\ plan.slides[i].font_size_content = Max({20, baseline - 4})
                /\ plan.slides[i].font_size_content \in {20, 24, 28}

\* a slide of 7 bullets whose mean length, 351 / 7, is above 50 only when it
\* is not truncated: baseline 28, reduced to 24
C15_Witness ==
    /\ Planned /\ plan.ok
    /\ \E i \in 1..Len(plan.slides) :
         /\ Len(plan.slides[i].content) = 7
         /\ TotalChars(plan.slides[i].content) = 351
         /\ plan.slides[i].font_size_content = 24

\* C16: the total_duration of a plan returned by create_plan is the sum of
\* the duration_seconds of its slides.
C16_TotalDuration ==
    (Planned /\ plan.ok) =>
      plan.total_duration
        = Sum([i \in 1..Len(plan.slides) |-> plan.slides[i].duration_seconds])

\* a plan of MAX_SLIDES slides of different durations was returned, with a
\* total above any one duration
C16_Witness ==
    /\ Planned /\ plan.ok
    /\ Len(plan.slides) = MAX_SLIDES
    /\ plan.slides[1].duration_seconds # plan.slides[2].duration_seconds
    /\ plan.total_duration > 15

\* the names of the theme table
KnownThemes == {"corporate_blue", "modern_dark", "minimal_light", "vibrant_purple"}

\* C17: create_plan never fails on the theme: with one of the four known
\* names the plan has that theme, with no name, an empty name or a name not
\* in the table it has corporate_blue; and the theme table is never changed.
C17_ThemeResolution ==
    /\ THEMES = PredefinedThemes
    /\ Planned =>
         /\ plan.ok
         /\ (theme_name # None /\ theme_name[1] \in KnownThemes)
            => /\ plan.theme.name = theme_name[1]
               /\ plan.theme = PredefinedThemes[theme_name[1]]
         /\ (theme_name = None \/ theme_name[1] \notin KnownThemes)
            => plan.theme = PredefinedThemes["corporate_blue"]

\* a plan was made with a name that is not in the table, and has the
\* default theme
C17_Witness ==
    /\ Planned /\ plan.ok
    /\ theme_name = <<"neon">>
    /\ plan.theme.name = "corporate_blue"

\* C18: create_plan never fails the validation of SlideLayout on a
\* validated input: every layout of the plan has 3 <= duration_seconds <=
\* 15, 24 <= font_size_title <= 72, 16 <= font_size_content <= 48 and the
\* layout "title_and_bullets".
C18_LayoutRanges ==
    Planned =>
      /\ plan.ok
      /\ plan.errors = {}
      /\ \A i \in 1..Len(plan.slides) :
           /\ plan.slides[i].duration_seconds \in 3..15
           /\ plan.slides[i].font_size_title \in 24..72
           /\ plan.slides[i].font_size_content \in 16..48
           /\ plan.slides[i].layout = "title_and_bullets"

\* a plan with the values nearest the ends of the ranges: a slide of one
\* bullet (3 + 1 seconds) and a slide of 7 long bullets (content font 20)
C18_Witness ==
    /\ Planned /\ plan.ok
    /\ Len(plan.slides) = 2
    /\ plan.slides[1].duration_seconds = 5
    /\ plan.slides[2].font_size_content = 20
    /\ plan.slides[2].font_size_title = 36

\* ------------------------------------------------------------------------
\* Part 3: SlideAgent and SlideRenderer (src/app/agents/slide_agent.py,
\* src/app/services/slide_renderer.py)
\* ------------------------------------------------------------------------

\* the character of a decimal digit
DigitChar(d) == <<"0", "1", "2", "3", "4", "5", "6", "7", "8", "9">>[d + 1]

RECURSIVE Decimal(_)
\* the decimal digits of n >= 0, the most significant first
Decimal(n) ==
    IF n < 10 THEN <<DigitChar(n)>>
    ELSE Decimal(n \div 10) \o <<DigitChar(n % 10)>>

\* f"{n:03d}": the digits of n, with zeros in front up to a width of 3
Format03d(n) == Rep("0", Max({0, 3 - Len(Decimal(n))})) \o Decimal(n)

\* the file name of line 274 without the padding: f"slide_{n}.png"
SlideFilenameUnpadded(slide_number) ==
    <<"slide_">> \o Decimal(slide_number) \o <<".png">>

\* filename = f"slide_{layout.slide_number:03d}.png"
SlideFilename(slide_number) ==
    <<"slide_">> \o Format03d(slide_number) \o <<".png">>

\* output_dir / filename
PathJoin(dir, filename) == [parent |-> dir, name |-> filename]

\* settings.WORKSPACE_DIR / "slides"
DefaultSlidesDir == "workspace/slides"

\* the directory render_slides writes to: output_dir, or the default when
\* output_dir is None
OutputDir == IF output_dir = None THEN DefaultSlidesDir ELSE output_dir[1]

\* the PNG render_slide draws for a layout with a theme
SlideImage(layout, theme) == [layout |-> layout, theme |-> theme]

\* canvas.save(output_path): the file system with the image at the path
SaveImage(fs, path, image) ==
    [q \in DOMAIN fs \cup {path} |-> IF q = path THEN image ELSE fs[q]]

\* ------------------------------------------------------------------------
\* The renderer's inputs: plans made by create_plan
\* ------------------------------------------------------------------------

\* MAX_SLIDES short slides
RenderDeck ==
    [k \in 1..MAX_SLIDES |->
        [title |-> Rep("t", 1 + (k % 3)), content |-> Lines(1 + (k % 2), 2)]]

RenderInputs == {SubSeq(RenderDeck, 1, n) : n \in 1..MAX_SLIDES}

\* files an earlier run left in the default directory
StaleImage == SlideImage(<<>>, <<>>)

StaleFiles ==
    [q \in {PathJoin(DefaultSlidesDir, SlideFilename(n)) : n \in {1, MAX_SLIDES + 1}}
       |-> StaleImage]

\* ------------------------------------------------------------------------
\* The state machine: SlideAgent.render_slides(plan, output_dir)
\* ------------------------------------------------------------------------

RendererInit ==
    /\ InputIdle
    /\ THEMES = PredefinedThemes
    /\ validated_input \in RenderInputs
    /\ theme_name \in {None, <<"modern_dark">>}
    /\ plan = create_plan(validated_input, theme_name)
    /\ content_lines = <<>>
    /\ duration = 0
    /\ files \in {<<>>, StaleFiles}
    /\ output_dir \in {None, <<"workspace/slides/modern_dark">>}
    /\ output_paths = <<>>
    /\ render_pc = "idle"
    /\ slide_result = NoSlideResult
    /\ VideoIdle
    /\ DetailIdle

\* render_slides up to the loop of render_multiple_slides
RenderSlides ==
    /\ render_pc = "idle"
    /\ plan.ok
    /\ output_paths' = <<>>
    /\ render_pc' = "rendering"
    /\ UNCHANGED <<files, output_dir, slide_result>>
    /\ UNCHANGED <<inputVars, plannerVars, videoVars, detailVars>>

\* one turn of the loop: the next layout is rendered and saved, and its
\* path appended
RenderSlide ==
    /\ render_pc = "rendering"
    /\ Len(output_paths) < Len(plan.slides)
    /\ LET layout == plan.slides[Len(output_paths) + 1]
           output_path == PathJoin(OutputDir, SlideFilename(layout.slide_number))
       IN /\ files' = SaveImage(files, output_path, SlideImage(layout, plan.theme))
          /\ output_paths' = Append(output_paths, output_path)
    /\ UNCHANGED <<output_dir, render_pc, slide_result>>
    /\ UNCHANGED <<inputVars, plannerVars, videoVars, detailVars>>

\* render_slide raises (the image cannot be drawn or saved): the call ends
\* with the exception
RenderSlideRaises ==
    /\ render_pc = "rendering"
    /\ Len(output_paths) < Len(plan.slides)
    /\ render_pc' = "raised"
    /\ UNCHANGED <<files, output_dir, output_paths, slide_result>>
    /\ UNCHANGED <<inputVars, plannerVars, videoVars, detailVars>>

\* the loop is over: render_multiple_slides returns output_paths and
\* render_slides returns the SlideRenderResult
ReturnSlideResult ==
    /\ render_pc = "rendering"
    /\ Len(output_paths) = Len(plan.slides)
    /\ slide_result' = [slide_paths |-> output_paths,
                        slide_count |-> Len(output_paths),
                        output_directory |-> OutputDir]
    /\ render_pc' = "returned"
    /\ UNCHANGED <<files, output_dir, output_paths>>
    /\ UNCHANGED <<inputVars, plannerVars, videoVars, detailVars>>

RendererNext == RenderSlides \/ RenderSlide \/ RenderSlideRaises \/ ReturnSlideResult

RendererSpec == RendererInit /\ [][RendererNext]_vars

\* ------------------------------------------------------------------------
\* Claim C19
\* ------------------------------------------------------------------------

\* C19: when render_slides returns for a plan of N slides, it returns
\* exactly N paths and reports slide_count N; the k-th path is in the output
\* directory, is named slide_ followed by k written with three digits and
\* .png, belongs to the slide numbered k, and exists.
C19_SlidePaths ==
    render_pc = "returned" =>
      /\ Len(slide_result.slide_paths) = Len(plan.slides)
      /\ slide_result.slide_count = Len(plan.slides)
      /\ \A k \in 1..Len(plan.slides) :
           /\ plan.slides[k].slide_number = k
           /\ slide_result.slide_paths[k].parent = OutputDir
           /\ slide_result.slide_paths[k].name
                = <<"slide_", DigitChar(k \div 100), DigitChar((k \div 10) % 10),
                    DigitChar(k % 10), ".png">>
           /\ slide_result.slide_paths[k] \in DOMAIN files

\* render_slides returned for a plan of MAX_SLIDES slides, its first path
\* named slide_001.png
C19_Witness ==
    /\ render_pc = "returned"
    /\ slide_result.slide_count = MAX_SLIDES
    /\ slide_result.slide_paths[1].name = <<"slide_", "0", "0", "1", ".png">>

\* ------------------------------------------------------------------------
\* Part 4: OpenCVGenerator.create_video (src/app/services/video_generator.py)
\* ------------------------------------------------------------------------

\* num_frames of line 116 with one frame too many
NumFramesInclusive(seconds, rate) == (seconds * rate) + 1

\* num_frames = int(duration * fps), for an integer duration and an integer
\* fps: the product, which int() leaves as it is
NumFrames(seconds, rate) == seconds * rate

\* the content of a file that Image.open cannot read
Unreadable == SlideImage(0, "")

\* ------------------------------------------------------------------------
\* The inputs of create_video
\* ------------------------------------------------------------------------

\* the path of the image of slide n in the default directory
SlidePath(n) == PathJoin(DefaultSlidesDir, SlideFilename(n))

\* the files create_video finds: the images of two slides, and a file that
\* is no image; slide_003.png does not exist
VideoFiles ==
    [q \in {SlidePath(1), SlidePath(2), SlidePath(4)} |->
        IF q = SlidePath(4) THEN Unreadable
        ELSE SlideImage(IF q = SlidePath(1) THEN 1 ELSE 2, "corporate_blue")]

\* (slide_path, duration) pairs, the durations at both ends of the range of
\* SlideLayout.duration_seconds and inside it
VideoPairs ==
    {<<SlidePath(1), 3>>, <<SlidePath(2), 4>>, <<SlidePath(1), 15>>,
     <<SlidePath(3), 3>>, <<SlidePath(4), 3>>}

RECURSIVE SeqsUpTo(_, _)
\* the sequences of at most n elements of S
SeqsUpTo(S, n) ==
    IF n = 0 THEN {<<>>}
    ELSE SeqsUpTo(S, n - 1) \cup {Append(q, x) : q \in SeqsUpTo(S, n - 1), x \in S}

\* ------------------------------------------------------------------------
\* The state machine: OpenCVGenerator.create_video(slide_data, output_path, fps)
\* ------------------------------------------------------------------------

VideoInit ==
    /\ InputIdle
    /\ PlannerIdle
    /\ files = VideoFiles
    /\ output_dir = None
    /\ output_paths = <<>>
    /\ render_pc = "idle"
    /\ slide_result = NoSlideResult
    /\ slide_data \in SeqsUpTo(VideoPairs, MaxVideoSlides)
    /\ fps \in 1..MaxFps
    /\ video_pc = "idle"
    /\ video_error = ""
    /\ out = "none"
    /\ video_idx = 0
    /\ image_bgr = None
    /\ num_frames = 0
    /\ frame_num = 0
    /\ frames = <<>>
    /\ total_frames = 0
    /\ total_duration = 0
    /\ DetailIdle

\* the checks of lines 69-75 without the one of the empty input
VideoArgumentErrorNoEmpty ==
    IF \E i \in 1..Len(slide_data) : slide_data[i][1] \notin DOMAIN files
    THEN "FileNotFoundError"
    ELSE ""

\* the checks of lines 69-75 before anything is opened
VideoArgumentError ==
    IF slide_data = <<>> THEN "ValueError"
    ELSE IF \E i \in 1..Len(slide_data) : slide_data[i][1] \notin DOMAIN files
    THEN "FileNotFoundError"
    ELSE ""

\* create_video raises before it opens the writer
CreateVideoRaises ==
    /\ video_pc = "idle"
    /\ VideoArgumentError # ""
    /\ video_error' = VideoArgumentError
    /\ video_pc' = "raised"
    /\ UNCHANGED <<slide_data, fps, out, video_idx, image_bgr, num_frames, frame_num,
                   frames, total_frames, total_duration>>
    /\ UNCHANGED <<inputVars, plannerVars, rendererVars, detailVars>>

\* the writer is created but is not opened: RuntimeError
OpenWriterFails ==
    /\ video_pc = "idle"
    /\ VideoArgumentError = ""
    /\ out' = "failed"
    /\ video_error' = "RuntimeError"
    /\ video_pc' = "raised"
    /\ UNCHANGED <<slide_data, fps, video_idx, image_bgr, num_frames, frame_num,
                   frames, total_frames, total_duration>>
    /\ UNCHANGED <<inputVars, plannerVars, rendererVars, detailVars>>

\* create_video up to its loop: the writer is open, the counters are 0
CreateVideo ==
    /\ video_pc = "idle"
    /\ VideoArgumentError = ""
    /\ out' = "open"
    /\ total_frames' = 0
    /\ total_duration' = 0
    /\ video_idx' = 1
    /\ video_pc' = "loading"
    /\ UNCHANGED <<slide_data, fps, video_error, image_bgr, num_frames, frame_num, frames>>
    /\ UNCHANGED <<inputVars, plannerVars, rendererVars, detailVars>>

\* a turn of the loop begins: the image of the slide is loaded and the
\* number of its frames computed
LoadSlide ==
    /\ video_pc = "loading"
    /\ video_idx <= Len(slide_data)
    /\ files[slide_data[video_idx][1]] # Unreadable
    /\ image_bgr' = files[slide_data[video_idx][1]]
    /\ num_frames' = NumFrames(slide_data[video_idx][2], fps)
    /\ frame_num' = 0
    /\ video_pc' = "writing"
    /\ UNCHANGED <<slide_data, fps, video_error, out, video_idx, frames,
                   total_frames, total_duration>>
    /\ UNCHANGED <<inputVars, plannerVars, rendererVars, detailVars>>

\* the image cannot be loaded: the exception is logged and raised again
LoadSlideRaises ==
    /\ video_pc = "loading"
    /\ video_idx <= Len(slide_data)
    /\ files[slide_data[video_idx][1]] = Unreadable
    /\ video_error' = "Exception"
    /\ video_pc' = "raised"
    /\ UNCHANGED <<slide_data, fps, out, video_idx, image_bgr, num_frames, frame_num,
                   frames, total_frames, total_duration>>
    /\ UNCHANGED <<inputVars, plannerVars, rendererVars, detailVars>>

\* out.write(image_bgr); total_frames += 1
WriteFrame ==
    /\ video_pc = "writing"
    /\ frame_num < num_frames
    /\ frames' = Append(frames, image_bgr)
    /\ total_frames' = total_frames + 1
    /\ frame_num' = frame_num + 1
    /\ UNCHANGED <<slide_data, fps, video_pc, video_error, out, video_idx, image_bgr,
                   num_frames, total_duration>>
    /\ UNCHANGED <<inputVars, plannerVars, rendererVars, detailVars>>

\* the frames of the slide are written: total_duration += duration, the
\* image is deleted, the loop goes on
EndSlide ==
    /\ video_pc = "writing"
    /\ frame_num >= num_frames
    /\ total_duration' = total_duration + slide_data[video_idx][2]
    /\ image_bgr' = None
    /\ video_idx' = video_idx + 1
    /\ video_pc' = "loading"
    /\ UNCHANGED <<slide_data, fps, video_error, out, num_frames, frame_num, frames,
                   total_frames>>
    /\ UNCHANGED <<inputVars, plannerVars, rendererVars, detailVars>>

\* the loop is over: out.release(), and output_path is returned
ReleaseVideo ==
    /\ video_pc = "loading"
    /\ video_idx > Len(slide_data)
    /\ out' = "released"
    /\ video_pc' = "released"
    /\ UNCHANGED <<slide_data, fps, video_error, video_idx, image_bgr, num_frames,
                   frame_num, frames, total_frames, total_duration>>
    /\ UNCHANGED <<inputVars, plannerVars, rendererVars, detailVars>>

VideoNext ==
    \/ CreateVideoRaises \/ OpenWriterFails \/ CreateVideo
    \/ LoadSlide \/ LoadSlideRaises \/ WriteFrame \/ EndSlide \/ ReleaseVideo

VideoSpec == VideoInit /\ [][VideoNext]_vars

\* ------------------------------------------------------------------------
\* Claim C20
\* ------------------------------------------------------------------------

\* the frames the i-th pair stands for: duration x fps copies of its image
SlideFrames(i) == Rep(files[slide_data[i][1]], slide_data[i][2] * fps)

\* the durations of the pairs
Durations == [i \in 1..Len(slide_data) |-> slide_data[i][2]]

\* C20: while create_video writes, the frames written so far are, pair by
\* pair in input order, duration x fps copies of the image of each pair
\* already finished, followed only by copies of the image of the pair being
\* written, never more than duration x fps of them; and when it returns,
\* the number of frames is fps x the sum of the durations, which the
\* counters total_frames and total_duration agree with.
C20_Frames ==
    /\ video_pc \in {"loading", "writing", "released"} =>
         frames = Concat([i \in 1..(video_idx - 1) |-> SlideFrames(i)])
                  \o (IF video_pc = "writing"
                      THEN Rep(files[slide_data[video_idx][1]], frame_num)
                      ELSE <<>>)
    /\ video_pc = "writing" => frame_num <= slide_data[video_idx][2] * fps
    /\ video_pc = "released" =>
         /\ video_idx = Len(slide_data) + 1
         /\ Len(frames) = fps * Sum(Durations)
         /\ total_frames = Len(frames)
         /\ total_duration = Sum(Durations)

\* create_video returned for two pairs with different images at more than
\* one frame per second: the first frames show one image, the last the other
C20_Witness ==
    /\ video_pc = "released"
    /\ Len(slide_data) = 2
    /\ fps > 1
    /\ slide_data[1][1] # slide_data[2][1]
    /\ Len(frames) = fps * (slide_data[1][2] + slide_data[2][2])
    /\ frames[1] # frames[Len(frames)]

\* ------------------------------------------------------------------------
\* Claim C21
\* ------------------------------------------------------------------------

\* some pair of the input names a file that does not exist
SlideMissing == \E i \in 1..Len(slide_data) : slide_data[i][1] \notin DOMAIN files

\* C21: once create_video has acted, an empty input has made it raise
\* ValueError, a missing image file, whichever pair names it, has made it
\* raise FileNotFoundError, and a writer that did not open has made it raise
\* RuntimeError; in all three cases the writer was never open for writing
\* and no frame was written.
C21_FailsWithoutFrames ==
    video_pc # "idle" =>
        /\ slide_data = <<>> => video_pc = "raised" /\ video_error = "ValueError"
        /\ SlideMissing => video_pc = "raised" /\ video_error = "FileNotFoundError"
        /\ out = "failed" => video_pc = "raised" /\ video_error = "RuntimeError"
        /\ (slide_data = <<>> \/ SlideMissing \/ out = "failed") =>
               /\ out # "open"
               /\ out # "released"
               /\ frames = <<>>
               /\ total_frames = 0

\* create_video raised for an input whose first image exists and whose
\* second does not: nothing of the first was written
C21_Witness ==
    /\ video_pc = "raised"
    /\ video_error = "FileNotFoundError"
    /\ Len(slide_data) = 2
    /\ slide_data[1][1] \in DOMAIN files
    /\ files[slide_data[1][1]] # Unreadable
    /\ slide_data[2][1] \notin DOMAIN files
    /\ frames = <<>>

\* ------------------------------------------------------------------------
\* Claim C25
\* ------------------------------------------------------------------------

\* C25: when create_video has returned or raised, a writer that it had
\* opened is released: it is never left open.
C25_WriterReleased ==
    video_pc \in {"raised", "released"} => out # "open"

\* ------------------------------------------------------------------------
\* Part 5: VideoAgent.create_video (src/app/agents/video_agent.py)
\* ------------------------------------------------------------------------

\* fps: int = 30
DEFAULT_FPS == 30

\* output_filename: str = "presentation.mp4"
DEFAULT_FILENAME == "presentation.mp4"

\* the value of a parameter: the argument, or the default when it is left out
Bind(arg, default) == IF arg = None THEN default ELSE arg[1]

\* zip(plan.slides, slide_result.slide_paths) made into (slide_path,
\* duration_seconds) pairs: as many as the shorter of the two has
ZipSlideData(layouts, paths) ==
    [i \in 1..Min({Len(layouts), Len(paths)}) |-> <<paths[i], layouts[i].duration_seconds>>]

\* settings.WORKSPACE_DIR / "videos"
VideosDir == "workspace/videos"

\* the result of lines 88-95 with the duration the generator counted
AgentResultCounted ==
    [video_path |-> video_output_path, duration_seconds |-> total_duration,
     slide_count |-> slide_result.slide_count, fps |-> fps,
     resolution |-> "1920x1080"]

\* VideoGenerationResult(...) of lines 88-95; file_size_mb, read from the
\* file system, is left out
AgentResult ==
    [video_path |-> video_output_path, duration_seconds |-> plan.total_duration,
     slide_count |-> slide_result.slide_count, fps |-> fps,
     resolution |-> "1920x1080"]

\* the generator's create_video has ended, by return or by exception
GeneratorEnded == video_pc \in {"released", "raised"}

\* the generator's create_video has returned: line 85 is reached
GeneratorReturned == video_pc = "released"

\* ------------------------------------------------------------------------
\* The inputs of VideoAgent.create_video
\* ------------------------------------------------------------------------

\* presentations of one and of two slides, of different durations
AgentInputs ==
    {<<[title |-> <<"t">>, content |-> Lines(1, 1)]>>,
     <<[title |-> <<"t">>, content |-> Lines(1, 1)],
       [title |-> <<"t", "t">>, content |-> Lines(2, 50)]>>}

\* what render_slides returns for n slides in the default directory
RenderResult(n) ==
    [slide_paths |-> [k \in 1..n |-> SlidePath(k)], slide_count |-> n,
     output_directory |-> DefaultSlidesDir]

\* the slide images on disk when create_video is called: both there; the
\* second one no image any more; the second one deleted
AgentFiles ==
    {[q \in {SlidePath(1), SlidePath(2)} |->
          SlideImage(IF q = SlidePath(1) THEN 1 ELSE 2, "corporate_blue")],
     [q \in {SlidePath(1), SlidePath(2)} |->
          IF q = SlidePath(1) THEN SlideImage(1, "corporate_blue") ELSE Unreadable],
     [q \in {SlidePath(1)} |-> SlideImage(1, "corporate_blue")]}

\* ------------------------------------------------------------------------
\* The state machine: VideoAgent.create_video(plan, slide_result,
\* output_filename, fps)
\* ------------------------------------------------------------------------

VideoAgentInit ==
    /\ InputIdle
    /\ THEMES = PredefinedThemes
    /\ validated_input \in AgentInputs
    /\ theme_name = None
    /\ plan = create_plan(validated_input, theme_name)
    /\ content_lines = <<>>
    /\ duration = 0
    /\ files \in AgentFiles
    /\ output_dir = None
    /\ output_paths = <<>>
    /\ render_pc = "returned"
    /\ slide_result \in {RenderResult(n) : n \in 0..MaxVideoSlides}
    /\ slide_data = <<>>
    /\ fps = 0
    /\ video_pc = "agent"
    /\ video_error = ""
    /\ out = "none"
    /\ video_idx = 0
    /\ image_bgr = None
    /\ num_frames = 0
    /\ frame_num = 0
    /\ frames = <<>>
    /\ total_frames = 0
    /\ total_duration = 0
    /\ video_args \in [output_filename : {None, <<"demo.mp4">>},
                       fps : {None} \cup {<<n>> : n \in 1..MaxFps}]
    /\ video_output_path = None
    /\ video_result = None
    /\ RunsIdle
    /\ DrawIdle

\* create_video up to the call of the generator: slide_data and
\* video_output_path are made and handed over with fps
AgentCreateVideo ==
    /\ video_pc = "agent"
    /\ slide_data' = ZipSlideData(plan.slides, slide_result.slide_paths)
    /\ video_output_path' = PathJoin(VideosDir, Bind(video_args.output_filename, DEFAULT_FILENAME))
    /\ fps' = Bind(video_args.fps, DEFAULT_FPS)
    /\ video_pc' = "idle"
    /\ UNCHANGED <<video_error, out, video_idx, image_bgr, num_frames, frame_num,
                   frames, total_frames, total_duration>>
    /\ UNCHANGED <<video_args, video_result>>
    /\ UNCHANGED <<inputVars, plannerVars, rendererVars, runVars, drawVars>>

\* the generator returned: the result is built and returned
ReturnVideoResult ==
    /\ GeneratorReturned
    /\ video_result' = <<AgentResult>>
    /\ video_pc' = "returned"
    /\ UNCHANGED <<slide_data, fps, video_error, out, video_idx, image_bgr, num_frames,
                   frame_num, frames, total_frames, total_duration>>
    /\ UNCHANGED <<video_args, video_output_path>>
    /\ UNCHANGED <<inputVars, plannerVars, rendererVars, runVars, drawVars>>

VideoAgentNext ==
    \/ AgentCreateVideo \/ ReturnVideoResult
    \/ CreateVideoRaises \/ OpenWriterFails \/ CreateVideo
    \/ LoadSlide \/ LoadSlideRaises \/ WriteFrame \/ EndSlide \/ ReleaseVideo

VideoAgentSpec == VideoAgentInit /\ [][VideoAgentNext]_vars

\* ------------------------------------------------------------------------
\* Claim C22
\* ------------------------------------------------------------------------

\* C22: when VideoAgent.create_video returns, the result has the plan's
\* total_duration as duration_seconds, the number of rendered slides as
\* slide_count, the fps that was passed, or 30 when none was, the
\* resolution "1920x1080", and as video_path the file in workspace/videos
\* with the name that was passed, or presentation.mp4 when none was.
C22_Result ==
    video_pc = "returned" =>
      /\ Len(video_result) = 1
      /\ video_result[1].duration_seconds = plan.total_duration
      /\ video_result[1].slide_count = Len(slide_result.slide_paths)
      /\ video_result[1].fps = (IF video_args.fps = None THEN 30 ELSE video_args.fps[1])
      /\ video_result[1].resolution = "1920x1080"
      /\ video_result[1].video_path.parent = "workspace/videos"
      /\ video_result[1].video_path.name =
           (IF video_args.output_filename = None THEN "presentation.mp4"
            ELSE video_args.output_filename[1])

\* create_video returned for two slides, called with the plan and the
\* rendered slides only: a video of 30 frames per second
C22_Witness ==
    /\ video_pc = "returned"
    /\ video_args.fps = None
    /\ video_args.output_filename = None
    /\ Len(plan.slides) = 2
    /\ slide_result.slide_count = 2
    /\ video_result[1].fps = 30
    /\ Len(frames) = 30 * plan.total_duration

\* ------------------------------------------------------------------------
\* Claim C23
\* ------------------------------------------------------------------------

\* C23: once the generator has raised, before the writer was opened or
\* between two slides, VideoAgent.create_video never returns a result: the
\* call stays ended by the exception, whatever was written before.
C23_NoResultOnFailure ==
    video_error # "" => video_pc = "raised" /\ video_result = None

\* the image of the second slide could not be loaded after the frames of
\* the first were written: no result
C23_Witness ==
    /\ video_pc = "raised"
    /\ video_error = "Exception"
    /\ out = "open"
    /\ frames # <<>>
    /\ video_result = None

\* ------------------------------------------------------------------------
\* Claim C27
\* ------------------------------------------------------------------------

\* C27: when VideoAgent.create_video returns, the duration_seconds it
\* reports is the sum of the durations of the slides that were assembled:
\* at the fps of the result it accounts for exactly the frames written.
C27_ReportedDuration ==
    video_pc = "returned" =>
      /\ video_result[1].duration_seconds = Sum(Durations)
      /\ video_result[1].duration_seconds * video_result[1].fps = Len(frames)

\* ------------------------------------------------------------------------
\* Part 6: SlideRenderer._get_font (src/app/services/slide_renderer.py)
\* ------------------------------------------------------------------------

\* the most calls of _get_font a run of the model makes
MaxFontCalls == 4

\* a cache key made of the size alone
CacheKeySizeOnly(font_family, size) == Decimal(size)

\* cache_key = f"{font_family}_{size}": the characters of the family, an
\* underscore, the decimal digits of the size
CacheKey(font_family, size) == font_family \o <<"_">> \o Decimal(size)

\* the font families and sizes asked for: a family whose name itself ends
\* in an underscore and a number, sizes of one and of two digits
FontFamilies == {<<"A">>, <<"A", "_", "1">>}

FontSizes == {2, 12}

\* what loading gives: ImageFont.truetype of a font file that is found, or
\* ImageFont.load_default()
FontKinds == {"truetype", "default"}

\* the cache with one more entry
CachePut(cache, cache_key, font) ==
    [k \in DOMAIN cache \cup {cache_key} |-> IF k = cache_key THEN font ELSE cache[k]]

\* nothing but the renderer exists
NoPipeline ==
    /\ InputIdle
    /\ PlannerIdle
    /\ RendererIdle
    /\ VideoIdle
    /\ AgentIdle
    /\ RunsIdle

FontInit == NoPipeline /\ DrawIdle

\* the fonts of the renderer: its cache, the calls made, the fonts created
FontState == [cache |-> font_cache, calls |-> font_calls, created |-> fonts_created]

\* _get_font(font_family, size) on the fonts st: a font is loaded and stored
\* only when the key is not in the cache; the cached font is returned
get_font(st, font_family, size, kind) ==
    LET cache_key == CacheKey(font_family, size)
        font == [id |-> st.created + 1, size |-> size, kind |-> kind]
        hit == cache_key \in DOMAIN st.cache
        cache == IF hit THEN st.cache ELSE CachePut(st.cache, cache_key, font)
    IN [cache |-> cache,
        calls |-> Append(st.calls, [font_family |-> font_family, size |-> size,
                                    font |-> cache[cache_key]]),
        created |-> IF hit THEN st.created ELSE st.created + 1]

\* the font the latest call returned
Returned(st) == st.calls[Len(st.calls)].font

\* a call of _get_font
GetFont ==
    /\ Len(font_calls) < MaxFontCalls
    /\ \E font_family \in FontFamilies, size \in FontSizes, kind \in FontKinds :
         LET st == get_font(FontState, font_family, size, kind)
         IN /\ font_cache' = st.cache
            /\ fonts_created' = st.created
            /\ font_calls' = st.calls
    /\ UNCHANGED <<wrap_input, wrap_output, draw_input, draws, draw_pc>>
    /\ UNCHANGED <<inputVars, plannerVars, rendererVars, videoVars, agentVars, runVars>>

FontNext == GetFont

FontSpec == FontInit /\ [][FontNext]_vars

\* ------------------------------------------------------------------------
\* Claim C30
\* ------------------------------------------------------------------------

\* the (font_family, size) pairs asked for so far
PairsRequested ==
    {<<font_calls[i].font_family, font_calls[i].size>> : i \in 1..Len(font_calls)}

\* C30: after any calls of _get_font the cache has as many entries as
\* distinct (font_family, size) pairs were asked for, each holding a font
\* object of its own; the font every earlier call returned is still the one
\* the cache holds for its pair, so no entry was replaced or removed; two
\* calls with the same pair returned the same object; and no font was
\* created beyond the first call of each pair.
C30_FontCache ==
    /\ Cardinality(DOMAIN font_cache) = Cardinality(PairsRequested)
    /\ fonts_created = Cardinality(PairsRequested)
    /\ \A i \in 1..Len(font_calls) :
         /\ font_calls[i].font.size = font_calls[i].size
         /\ \E k \in DOMAIN font_cache : font_cache[k] = font_calls[i].font
    /\ \A i, j \in 1..Len(font_calls) :
         (font_calls[i].font_family = font_calls[j].font_family
            /\ font_calls[i].size = font_calls[j].size)
           <=> font_calls[i].font.id = font_calls[j].font.id
    /\ \A k, l \in DOMAIN font_cache : font_cache[k].id = font_cache[l].id => k = l

\* four calls for two pairs that share the size, each pair asked for twice
C30_Witness ==
    /\ Len(font_calls) = 4
    /\ Cardinality(PairsRequested) = 2
    /\ font_calls[1].size = font_calls[2].size
    /\ font_calls[1].font_family # font_calls[2].font_family
    /\ font_calls[3].font = font_calls[1].font
    /\ font_calls[4].font = font_calls[2].font

\* ------------------------------------------------------------------------
\* Part 7: SlideRenderer._wrap_text (src/app/services/slide_renderer.py)
\* ------------------------------------------------------------------------

\* the longest text the model wraps, in characters
MaxTextLen == 6

\* the positions where a word of t begins: a character that is no
\* whitespace, at the start or after whitespace
WordStarts(t) == {i \in 1..Len(t) : ~IsSpace(t[i]) /\ (i = 1 \/ IsSpace(t[i - 1]))}

\* the positions where a word of t ends
WordEnds(t) == {i \in 1..Len(t) : ~IsSpace(t[i]) /\ (i = Len(t) \/ IsSpace(t[i + 1]))}

\* the k-th smallest number of S
Nth(S, k) == CHOOSE x \in S : Cardinality({y \in S : y < x}) = k - 1

\* text.split(): the runs of characters that are not whitespace, in order
SplitWords(t) ==
    [k \in 1..Cardinality(WordStarts(t)) |->
        SubSeq(t, Nth(WordStarts(t), k), Nth(WordEnds(t), k))]

\* ' '.join(words)
JoinWords(ws) == Join(ws, <<SP>>)

\* the width of a character in a font of size 1: a wide letter is twice a
\* narrow one, a space as wide as a narrow letter
CharUnits(c) == IF c = "W" THEN 2 ELSE 1

\* the size of the glyphs of a font: ImageFont.load_default() has glyphs of
\* one size, whatever size was asked for
GlyphSize(font) == IF font.kind = "default" THEN 10 ELSE font.size

\* bbox = font.getbbox(line); text_width = bbox[2] - bbox[0]
TextWidth(font, line) == GlyphSize(font) * Sum([i \in 1..Len(line) |-> CharUnits(line[i])])

\* the test of line 110 with < in place of <=
FitsStrictly(text_width, max_width) == text_width < max_width

\* text_width <= max_width
Fits(text_width, max_width) == text_width <= max_width

RECURSIVE WrapLoop(_, _, _, _, _, _)
\* the loop of lines 104-115 from the i-th word on, and lines 117-118 after it
WrapLoop(words, i, wrapped, current_line, font, max_width) ==
    IF i > Len(words)
    THEN (IF current_line # <<>> THEN Append(wrapped, JoinWords(current_line)) ELSE wrapped)
    ELSE LET test_line == JoinWords(Append(current_line, words[i]))
         IN IF Fits(TextWidth(font, test_line), max_width)
            THEN WrapLoop(words, i + 1, wrapped, Append(current_line, words[i]), font, max_width)
            ELSE WrapLoop(words, i + 1,
                          IF current_line # <<>>
                          THEN Append(wrapped, JoinWords(current_line)) ELSE wrapped,
                          <<words[i]>>, font, max_width)

\* _wrap_text(text, font, max_width): return lines if lines else [text]
WrapText(t, font, max_width) ==
    LET wrapped == WrapLoop(SplitWords(t), 1, <<>>, <<>>, font, max_width)
    IN IF wrapped # <<>> THEN wrapped ELSE <<t>>

\* the texts wrapped: narrow and wide letters and spaces, also in front, at
\* the end and doubled
WrapTexts == SeqsUpTo({"a", "W", SP}, MaxTextLen)

\* the fonts measured with
WrapFonts == {[id |-> 1, size |-> n, kind |-> "truetype"] : n \in {1, 2}}

\* the widths wrapped to: narrower than a wide letter, and wider
WrapWidths == {1, 3, 4, 6}

WrapInit ==
    /\ NoPipeline
    /\ wrap_input \in [text : WrapTexts, font : WrapFonts, max_width : WrapWidths]
    /\ wrap_output = <<>>
    /\ draw_input = <<>>
    /\ draws = <<>>
    /\ draw_pc = "idle"
    /\ font_cache = <<>>
    /\ font_calls = <<>>
    /\ fonts_created = 0

\* a call of _wrap_text
CallWrapText ==
    /\ draw_pc = "idle"
    /\ wrap_output' = WrapText(wrap_input.text, wrap_input.font, wrap_input.max_width)
    /\ draw_pc' = "wrapped"
    /\ UNCHANGED <<wrap_input, draw_input, draws, font_cache, font_calls, fonts_created>>
    /\ UNCHANGED <<inputVars, plannerVars, rendererVars, videoVars, agentVars, runVars>>

WrapNext == CallWrapText

WrapSpec == WrapInit /\ [][WrapNext]_vars

\* ------------------------------------------------------------------------
\* Claim C28
\* ------------------------------------------------------------------------

\* the words of the text that was wrapped
WrapWords == SplitWords(wrap_input.text)

\* the number of words in each line returned
WordCounts == [k \in 1..Len(wrap_output) |-> Len(SplitWords(wrap_output[k]))]

\* the number of words in the lines before the k-th
WordsBefore(k) == Sum(SubSeq(WordCounts, 1, k - 1))

\* the width of the first m words after the first s, joined by single spaces
RunWidth(s, m) == TextWidth(wrap_input.font, JoinWords(SubSeq(WrapWords, s + 1, s + m)))

\* the number of words the line that begins after s words must hold: the
\* most that fit into max_width, or one when not even one fits
GreedyCount(s) ==
    LET fitting == {m \in 1..(Len(WrapWords) - s) : RunWidth(s, m) <= wrap_input.max_width}
    IN IF fitting = {} THEN 1 ELSE Max(fitting)

\* C28: the lines _wrap_text returns for a text with words are, one after
\* the other, the longest run of the words still left, joined by single
\* spaces, whose width is at most max_width, or one word when that word
\* alone is wider; so the words of the lines read in order are the words of
\* the text, and a line wider than max_width holds one word. For every
\* text, with words or without, the lines hold the words of the text.
C28_GreedyWrap ==
    draw_pc = "wrapped" =>
      /\ Concat([k \in 1..Len(wrap_output) |-> SplitWords(wrap_output[k])]) = WrapWords
      /\ WrapWords # <<>> =>
           /\ Sum(WordCounts) = Len(WrapWords)
           /\ \A k \in 1..Len(wrap_output) :
                /\ WordCounts[k] = GreedyCount(WordsBefore(k))
                /\ wrap_output[k] = JoinWords(SubSeq(WrapWords, WordsBefore(k) + 1,
                                                     WordsBefore(k) + WordCounts[k]))
                /\ TextWidth(wrap_input.font, wrap_output[k]) > wrap_input.max_width
                     => WordCounts[k] = 1

\* a text of three words was wrapped to two lines: the first two words fill
\* the first line to the limit, and the last word, too wide for any line,
\* stands alone
C28_Witness ==
    /\ draw_pc = "wrapped"
    /\ Len(WrapWords) = 3
    /\ Len(wrap_output) = 2
    /\ WordCounts = <<2, 1>>
    /\ TextWidth(wrap_input.font, wrap_output[1]) = wrap_input.max_width
    /\ TextWidth(wrap_input.font, wrap_output[2]) > wrap_input.max_width

\* ------------------------------------------------------------------------
\* Part 8: SlideRenderer.render_slide (src/app/services/slide_renderer.py)
\* ------------------------------------------------------------------------

\* the class constants of SlideRenderer (lines 17-25)
WIDTH == 1920

MARGIN == 100

TITLE_Y_POSITION == 150

CONTENT_START_Y == 350

LINE_SPACING == 80

\* the bullet character, written here as an asterisk
BULLET_SYMBOL == "*"

\* draw.text((x, y), line, font=font, fill=fill)
DrawText(x, y, line, font, fill) == [x |-> x, y |-> y, text |-> line, font |-> font, fill |-> fill]

\* the title lines drawn: centred, each font_size + 20 below the one before
TitleDraws(wrapped, font, font_size, fill) ==
    [k \in 1..Len(wrapped) |->
        DrawText((WIDTH - TextWidth(font, wrapped[k])) \div 2,
                 TITLE_Y_POSITION + (k - 1) * (font_size + 20),
                 wrapped[k], font, fill)]

\* _render_title(draw, title, font_size, theme) with the font _get_font
\* returned: what it draws, and the y_position it returns
render_title(title, font, font_size, theme) ==
    LET max_width == WIDTH - (2 * MARGIN)
        wrapped == WrapText(title, font, max_width)
    IN [draws |-> TitleDraws(wrapped, font, font_size, theme.text_color),
        y_position |-> TITLE_Y_POSITION + Len(wrapped) * (font_size + 20)]

\* the draws of one bullet whose first line is at y_position: the symbol
\* and the first line, then the other lines, LINE_SPACING apart
BulletDraws(wrapped, y_position, font, theme) ==
    <<DrawText(MARGIN, y_position, <<BULLET_SYMBOL>>, font, theme.accent_color)>>
    \o [k \in 1..Len(wrapped) |->
          DrawText(MARGIN + 50, y_position + (k - 1) * LINE_SPACING, wrapped[k], font,
                   theme.text_color)]

RECURSIVE BulletLoop(_, _, _, _, _, _)
\* the loop of lines 181-201 from the i-th bullet on
BulletLoop(bullets, i, y_position, drawn, font, theme) ==
    IF i > Len(bullets) THEN drawn
    ELSE LET text_x == MARGIN + 50
             max_text_width == WIDTH - text_x - MARGIN
             wrapped == WrapText(bullets[i], font, max_text_width)
         IN BulletLoop(bullets, i + 1, y_position + Len(wrapped) * LINE_SPACING + 20,
                       drawn \o BulletDraws(wrapped, y_position, font, theme), font, theme)

\* _render_bullet_points(draw, content, start_y, font_size, theme) with the
\* font _get_font returned
render_bullet_points(bullets, start_y, font, theme) ==
    BulletLoop(bullets, 1, start_y, <<>>, font, theme)

\* the start of the content without the floor of CONTENT_START_Y
ContentStartNoFloor(title_end_y) == title_end_y + 80

\* content_start_y = max(title_end_y + 80, self.CONTENT_START_Y)
ContentStart(title_end_y) == Max({title_end_y + 80, CONTENT_START_Y})

\* ------------------------------------------------------------------------
\* The inputs of render_slide
\* ------------------------------------------------------------------------

\* titles of n words of nine wide letters: 10n - 1 characters
WideTitle(n) == JoinWords(Rep(Rep("W", 9), n))

\* titles of one to ten lines, and short and long titles of narrow letters
DrawTitles == {WideTitle(n) : n \in 1..10} \cup {Rep("t", n) : n \in {1, MAX_TITLE_LEN}}

\* layouts with the title font sizes calculate_font_sizes gives and the
\* limits of SlideLayout.font_size_title, with one bullet and with two
DrawLayouts ==
    {SlideLayout(1, title, bullets, "title_and_bullets", 5, size_title, 32).layout :
        title \in DrawTitles, bullets \in {Lines(1, 50), Lines(2, 81)},
        size_title \in {24, 36, 42, 48, 72}}

\* ------------------------------------------------------------------------
\* The state machine: SlideRenderer.render_slide(layout, theme, output_path)
\* ------------------------------------------------------------------------

DrawInit ==
    /\ NoPipeline
    /\ wrap_input = <<>>
    /\ wrap_output = <<>>
    /\ draw_input \in [layout : DrawLayouts,
                        theme : {PredefinedThemes["modern_dark"]},
                        kind : FontKinds]
    /\ draws = <<>>
    /\ draw_pc = "idle"
    /\ font_cache = <<>>
    /\ font_calls = <<>>
    /\ fonts_created = 0

\* render_slide: the title is drawn, then the bullets from content_start_y
\* on, and the image is saved
RenderSlideDraw ==
    /\ draw_pc = "idle"
    /\ LET layout == draw_input.layout
           theme == draw_input.theme
           st1 == get_font(FontState, <<theme.font_family>>, layout.font_size_title,
                           draw_input.kind)
           title == render_title(layout.title, Returned(st1), layout.font_size_title, theme)
           content_start_y == ContentStart(title.y_position)
           st2 == get_font(st1, <<theme.font_family>>, layout.font_size_content,
                           draw_input.kind)
       IN /\ draws' = title.draws
                       \o render_bullet_points(layout.content, content_start_y,
                                               Returned(st2), theme)
          /\ font_cache' = st2.cache
          /\ font_calls' = st2.calls
          /\ fonts_created' = st2.created
          /\ files' = SaveImage(files, SlidePath(layout.slide_number),
                                SlideImage(layout, theme))
    /\ draw_pc' = "done"
    /\ UNCHANGED <<wrap_input, wrap_output, draw_input>>
    /\ UNCHANGED <<output_dir, output_paths, render_pc, slide_result>>
    /\ UNCHANGED <<inputVars, plannerVars, videoVars, agentVars, runVars>>

DrawNext == RenderSlideDraw

DrawSpec == DrawInit /\ [][DrawNext]_vars

\* ------------------------------------------------------------------------
\* Claim C29
\* ------------------------------------------------------------------------

\* the number of title lines drawn: the draws before the first bullet symbol
TitleLineCount ==
    Min({k \in 1..Len(draws) : draws[k].text = <<BULLET_SYMBOL>>}) - 1

\* C29: after render_slide the k-th title line, k from 0, was drawn at
\* y = 150 + k x (font_size_title + 20), and the first bullet line, symbol
\* and text, at y = max(150 + n x (font_size_title + 20) + 80, 350), n being
\* the number of title lines; so the content starts at 350 or lower and 80
\* or more below the end of the title.
C29_Positions ==
    draw_pc = "done" =>
      LET n == TitleLineCount
          font_size_title == draw_input.layout.font_size_title
          title_end == 150 + n * (font_size_title + 20)
          first_y == IF title_end + 80 > 350 THEN title_end + 80 ELSE 350
      IN /\ n >= 1
         /\ \A k \in 0..(n - 1) : draws[k + 1].y = 150 + k * (font_size_title + 20)
         /\ JoinWords([k \in 1..n |-> draws[k].text]) = JoinWords(SplitWords(draw_input.layout.title))
         /\ draws[n + 1].y = first_y
         /\ draws[n + 2].y = first_y
         /\ draws[n + 2].text = WrapText(draw_input.layout.content[1], draws[n + 2].font,
                                         WIDTH - 2 * MARGIN - 50)[1]
         /\ first_y >= 350
         /\ first_y >= title_end + 80

\* a slide whose title took three lines: the third is two steps below the
\* first, and the content starts below 350
C29_Witness ==
    /\ draw_pc = "done"
    /\ TitleLineCount = 3
    /\ draws[3].y = 150 + 2 * (draw_input.layout.font_size_title + 20)
    /\ draws[4].y > 350

\* ------------------------------------------------------------------------
\* Part 9: validate_input on texts of tag lines in any order
\* ------------------------------------------------------------------------

\* the most lines of a text
MaxInputLines == 6

\* the texts submitted: up to MaxInputLines lines, each one of the slide
\* and title tags or a line of text, in every order
TaggedTexts ==
    {Join(ls, <<NL>>) :
        ls \in SeqsUpTo({<<SLIDE_START>>, <<SLIDE_END>>, <<TITLE_START>>, <<TITLE_END>>,
                         <<"a">>}, MaxInputLines)}

LinesInit ==
    /\ pc = "idle"
    /\ doc = <<>>
    /\ request = NoCall.request
    /\ content \in TaggedTexts
    /\ result = NoCall.result
    /\ previous = NoCall
    /\ PlannerIdle
    /\ RendererIdle
    /\ VideoIdle
    /\ DetailIdle

\* a call of validate_input(content=content)
ValidateLines ==
    /\ pc = "idle"
    /\ result' = validate_input(content)
    /\ pc' = "validated"
    /\ UNCHANGED <<doc, request, content, previous>>
    /\ UNCHANGED <<plannerVars, rendererVars, videoVars, detailVars>>

LinesSpec == LinesInit /\ [][ValidateLines]_vars

\* ------------------------------------------------------------------------
\* Claim C26
\* ------------------------------------------------------------------------

\* the number of the first k lines of the text that are the tag
TagCount(tag, k) ==
    Cardinality({i \in 1..k : Strip(SplitLines(content)[i]) = <<tag>>})

\* C26: when parse_slide_format succeeds, no title is open at any
\* [SLIDE_END] or [SLIDE_START] line: as many [TITLE_END] as [TITLE_START]
\* lines came before it, so every title is opened and closed inside one
\* slide block.
C26_TitleInsideSlide ==
    (pc = "validated" /\ result.ok) =>
        \A k \in 1..Len(SplitLines(content)) :
            Strip(SplitLines(content)[k]) \in {<<SLIDE_END>>, <<SLIDE_START>>}
              => TagCount(TITLE_START, k) = TagCount(TITLE_END, k)

\* ------------------------------------------------------------------------
\* Part 10: two generate_video requests at the same time
\* (src/app/api/v1/endpoints.py)
\* ------------------------------------------------------------------------

\* generate_video is a plain def: the server runs each request in a thread
\* of its own, and the threads share the file system
Runs == {1, 2}

\* the plan of a run: run 1 asks for corporate_blue, run 2 for modern_dark
RunPlan(r, slides) ==
    create_plan(slides, IF r = 1 THEN <<"corporate_blue">> ELSE <<"modern_dark">>)

ConcurrentInit ==
    /\ InputIdle
    /\ PlannerIdle
    /\ files = <<>>
    /\ output_dir = None
    /\ output_paths = <<>>
    /\ render_pc = "idle"
    /\ slide_result = NoSlideResult
    /\ VideoIdle
    /\ AgentIdle
    /\ \E decks \in [Runs -> AgentInputs] :
         run = [r \in Runs |->
                  [plan |-> RunPlan(r, decks[r]), pc |-> "rendering", slide_paths |-> <<>>,
                   slide_data |-> <<>>, idx |-> 0, frames |-> <<>>]]
    /\ DrawIdle

\* what a step of run r leaves alone
RunFrame(r) ==
    /\ \A q \in Runs \ {r} : run'[q] = run[q]
    /\ run'[r].plan = run[r].plan
    /\ UNCHANGED <<output_dir, output_paths, render_pc, slide_result>>
    /\ UNCHANGED <<inputVars, plannerVars, videoVars, agentVars, drawVars>>

\* run r renders its next slide into the default directory
RunRenderSlide(r) ==
    /\ run[r].pc = "rendering"
    /\ Len(run[r].slide_paths) < Len(run[r].plan.slides)
    /\ LET layout == run[r].plan.slides[Len(run[r].slide_paths) + 1]
           path == PathJoin(OutputDir, SlideFilename(layout.slide_number))
       IN /\ files' = SaveImage(files, path, SlideImage(layout, run[r].plan.theme))
          /\ run' = [run EXCEPT ![r].slide_paths = Append(@, path)]
    /\ RunFrame(r)

\* render_slides of run r returned: create_video pairs the paths with the
\* durations and opens the writer
RunCreateVideo(r) ==
    /\ run[r].pc = "rendering"
    /\ Len(run[r].slide_paths) = Len(run[r].plan.slides)
    /\ run' = [run EXCEPT ![r].slide_data = ZipSlideData(run[r].plan.slides, run[r].slide_paths),
                          ![r].idx = 1,
                          ![r].pc = "assembling"]
    /\ UNCHANGED files
    /\ RunFrame(r)

\* create_video of run r loads the image of its next pair and writes its frames
RunWriteSlide(r) ==
    /\ run[r].pc = "assembling"
    /\ run[r].idx <= Len(run[r].slide_data)
    /\ LET pair == run[r].slide_data[run[r].idx]
       IN run' = [run EXCEPT ![r].frames = @ \o Rep(files[pair[1]], NumFrames(pair[2], DEFAULT_FPS)),
                             ![r].idx = @ + 1]
    /\ UNCHANGED files
    /\ RunFrame(r)

\* the video of run r is complete
RunReturn(r) ==
    /\ run[r].pc = "assembling"
    /\ run[r].idx > Len(run[r].slide_data)
    /\ run' = [run EXCEPT ![r].pc = "returned"]
    /\ UNCHANGED files
    /\ RunFrame(r)

ConcurrentNext ==
    \E r \in Runs : RunRenderSlide(r) \/ RunCreateVideo(r) \/ RunWriteSlide(r) \/ RunReturn(r)

ConcurrentSpec == ConcurrentInit /\ [][ConcurrentNext]_vars

\* ------------------------------------------------------------------------
\* Claim C24
\* ------------------------------------------------------------------------

\* C24: every frame of the video of a run is the image of one of the slides
\* of that run, drawn with its theme, however the steps of the two runs are
\* interleaved.
C24_NoInterference ==
    \A r \in Runs : \A i \in 1..Len(run[r].frames) :
        /\ run[r].frames[i].theme = run[r].plan.theme
        /\ \E k \in 1..Len(run[r].plan.slides) : run[r].frames[i].layout = run[r].plan.slides[k]

====
